---------------------------- MODULE Spec2Model ----------------------------
(***************************************************************************)
(* Model of the ADK DevOps Assistant backend (backend/app).                *)
(*                                                                         *)
(* The module holds one state machine per subsystem, each with its own     *)
(* specification over the shared variable tuple:                           *)
(*   SpecRate     rate-limit middleware over the Redis counter             *)
(*   SpecAuth     bearer-token / RBAC / API-key dependencies               *)
(*   SpecSession  session service and the session-history route            *)
(*   SpecAgent    BaseADKAgent.execute under the tenacity retry decorator  *)
(* A specification moves only its own subsystem's variables; the others    *)
(* stay at their idle initial value.                                       *)
(***************************************************************************)
EXTENDS Integers, Sequences, FiniteSets, TLC

VARIABLES
    \* ---- rate limiter (middleware/rate_limit.py) ----
    rl_limit,      \* settings.RATE_LIMIT_PER_MINUTE as configured
    rl_store,      \* Redis: key "rate_limit:<client>" -> [n, ttl]; absent keys are not in the domain
    rl_h,          \* per in-flight request: position in dispatch and its locals; seq records
                   \* that the request was handled with nothing in between (history)
    rl_arrivals,   \* history: requests of the client that reached dispatch since its key last expired
    rl_raced,      \* history: another request or an expiry fell between a request's GET and its INCR
    rl_sinceAdmit, \* history: seconds since the client's last admitted request (capped at WINDOW)
    rl_metrics,    \* history: statuses MetricsMiddleware recorded
    \* ---- authentication (middleware/auth.py, api/routes/agents.py, webhooks.py) ----
    au_key,        \* settings.SUPABASE_SERVICE_KEY as configured
    au_req,        \* the request being served: route, credentials, what the identity backend holds
    au_pc,         \* position of the request in its dependency chain
    au_user,       \* result of get_current_user: <<>> (None) or <<UserContext>>
    au_dep,        \* what the route's dependency handed to the handler: <<>> or <<value>>
    au_granted,    \* result of the last has_role / verify_api_key evaluation
    au_status,     \* HTTP status of the response (0 while none)
    au_ran,        \* the route handler's body has run
    \* ---- sessions (services/session_service.py, api/routes/chat.py) ----
    ss_sessions,   \* table adk_sessions: session_id -> [session_id, user_id, events]
    ss_history,    \* table session_history: rows in insertion (created_at) order
    ss_p,          \* per server process: the operation it runs, its position and locals
    ss_hist,       \* history, per session: turns of the add_event calls that returned True,
                   \* number of embedded-list updates written, whether a session_history
                   \* insert failed after its update succeeded
    ss_started     \* history: add_event calls started

rateVars == <<rl_limit, rl_store, rl_h, rl_arrivals, rl_raced, rl_sinceAdmit, rl_metrics>>
authVars == <<au_key, au_req, au_pc, au_user, au_dep, au_granted, au_status, au_ran>>

sessVars == <<ss_sessions, ss_history, ss_p, ss_hist, ss_started>>

\* BaseADKAgent.execute under its tenacity retry decorator
VARIABLES
    ag_pc,         \* position of the call: idle, bind, session, run, save, failed, wait,
                   \* returned, raised
    ag_call,       \* the call: how it passes its arguments, user_message, session_id
    ag_attempt,    \* tenacity's attempt_number
    ag_runs,       \* history: times this call invoked self.agent.run
    ag_log,        \* history: outcome of each attempt of this call
    ag_text,       \* response_text of the current attempt, <<>> before the run
    ag_result,     \* what the caller received: a value or an exception
    ag_calls       \* calls made so far

agentVars == <<ag_pc, ag_call, ag_attempt, ag_runs, ag_log, ag_text, ag_result, ag_calls>>

\* POST /api/chat/ and POST /api/chat/async
VARIABLES
    ch_pc,         \* position of the request: idle, get, create, route, executing, save,
                   \* enqueue, done
    ch_req,        \* the request: route, message, session_id, agent_name, user
    ch_sid,        \* session_id the handler works with (given or generated)
    ch_text,       \* response_text, <<>> until there is one
    ch_resp,       \* the HTTP response: status and body
    ch_log,        \* history: what happened while serving this request
    ch_count       \* requests served so far

chatVars == <<ch_pc, ch_req, ch_sid, ch_text, ch_resp, ch_log, ch_count>>

\* TaskService (RQ queue) and the worker that runs its jobs
VARIABLES
    tq_enabled,    \* TaskService.enabled, fixed at construction
    tq_jobs,       \* the jobs in the broker, in submission order: id, func, kwargs, status, result
    tq_call,       \* history: the last enqueue_task call, its arguments and what it returned
    tq_worker      \* the worker: idle, or running the job at an index of tq_jobs

queueVars == <<tq_enabled, tq_jobs, tq_call, tq_worker>>

\* EventBus.publish and the EventDispatcher
VARIABLES
    bus_channels,  \* per Redis channel, the messages written to it, oldest first
    bus_pub,       \* the publish call in progress or last made
    bus_count      \* publish calls made so far

busVars == <<bus_channels, bus_pub, bus_count>>

\* GET /api/events/{session_id}: event_generator and the stream_session_events
\* generator it iterates
VARIABLES
    sse_status,    \* HTTP status of the stream_events response, 0 before the request
    sse_pc,        \* position of event_generator
    sse_client,    \* the HTTP client: none, connected or disconnected
    sse_out,       \* the kinds of the SSE blocks handed to the response, oldest first
    stop_event,    \* the asyncio.Event shared by the route and the stream
    st_pc,         \* position of stream_session_events
    st_sub,        \* whether subscribe(channel) has succeeded on the dedicated connection
    st_unsub,      \* unsubscribe(channel): not called, returned or raised
    st_closed,     \* whether close() of the dedicated connection was called
    st_exc,        \* the exception travelling out of stream_session_events, if any
    st_polled      \* messages taken from the subscription so far

streamVars == <<sse_status, sse_pc, sse_client, sse_out, stop_event, st_pc, st_sub, st_unsub, st_closed,
                st_exc, st_polled>>

\* CacheService
VARIABLES
    cache_ping,    \* history: whether the broker answered the ping of the constructor
    cache_client,  \* whether self.redis_client is a client (TRUE) or None (FALSE)
    cache_store,   \* the broker's keys: absent, or the stored text and its expiry time
    cache_now,     \* the broker's clock, in seconds
    cache_call,    \* history: the last call of the service and what it returned
    cache_last,    \* history: per key, the last writing call (set, delete, increment)
    cache_touched, \* history: whether a command was sent to the broker after construction
    cache_writes   \* writing calls made so far

cacheVars == <<cache_ping, cache_client, cache_store, cache_now, cache_call, cache_last,
               cache_touched, cache_writes>>

\* Event.to_json / Event.from_json applied to one event
VARIABLES
    ev_pc,         \* none, built, dumped or loaded
    ev_event,      \* the event built
    ev_json,       \* its to_json()
    ev_back        \* from_json of that

eventVars == <<ev_pc, ev_event, ev_json, ev_back>>

\* InfrastructureMonitorAgent.monitor_services, one pass
VARIABLES
    mon_pc,        \* idle, insert, alert, status, failed or done
    mon_checks,    \* what the checks returned: running count and percent_used, each maybe absent
    mon_metrics,   \* the three metric records built
    mon_log,       \* the effects of the pass on the store and the automation engine, in order
    mon_result     \* "" while running, then success or raised

monitorVars == <<mon_pc, mon_checks, mon_metrics, mon_log, mon_result>>

\* review_workflow (LangGraph) and CodeReviewerAgent.review_code
VARIABLES
    wf_pc,         \* idle, the stage about to run, END, or done
    wf_caller,     \* review_code or direct (ainvoke on a state of the caller's)
    wf_input,      \* the state the workflow was invoked with
    wf_state,      \* the workflow state
    wf_trace,      \* the stages run, in order
    wf_result      \* "" until the caller has its answer, then returned or raised

reviewVars == <<wf_pc, wf_caller, wf_input, wf_state, wf_trace, wf_result>>

\* AgentEvaluator.evaluate_agent (tests/eval/agent_evaluator.py)
VARIABLES
    eval_pc,       \* idle, loop (inside the for loop) or done (returned)
    eval_agent,    \* the kind of agent object evaluated
    eval_ragas,    \* RAGAS_AVAILABLE
    eval_cases,    \* the test cases, in order
    eval_i,        \* the number of cases the loop has finished
    eval_answers,  \* what agent.execute did for each finished case
    eval_results   \* the results list

evalVars == <<eval_pc, eval_agent, eval_ragas, eval_cases, eval_i, eval_answers, eval_results>>

\* The subscription of a stream and what is published meanwhile
VARIABLES
    st_session,    \* the session the stream was opened for
    ps_inbox,      \* messages the broker has delivered to the subscription, unread
    ps_log,        \* every publish so far: channel, message, and whether the stream was subscribed
    st_yielded     \* the events stream_session_events has yielded, oldest first

pubsubVars == <<st_session, ps_inbox, ps_log, st_yielded>>

\* MetricsMiddleware (middleware/metrics.py)
VARIABLES
    mm_pc,         \* per request: idle, call_next (awaiting the rest of the chain) or done
    mm_req,        \* per request: its method and endpoint
    mm_counter,    \* http_requests_total: count per (method, endpoint, status)
    mm_hist,       \* http_request_duration_seconds: observations per (method, endpoint)
    mm_result,     \* per request: how dispatch ended
    mm_trace       \* per request: the increments and observations it caused

metricsVars == <<mm_pc, mm_req, mm_counter, mm_hist, mm_result, mm_trace>>

\* Chat turns of one session served by one server process (one event loop)
VARIABLES
    tn_pc,         \* per request: waiting (not arrived), sleeping (retry backoff) or done
    tn_req,        \* per request: message and agent_name
    tn_attempt,    \* per request: tenacity's attempt_number of its execute call
    tn_status,     \* per request: the HTTP status answered, 0 before
    tn_arrived     \* the requests in the order they arrived

turnVars == <<tn_pc, tn_req, tn_attempt, tn_status, tn_arrived>>

\* GET /api/health/detailed (api/routes/health.py)
VARIABLES
    hl_pc,         \* idle, redis, supabase, langfuse, n8n, answer or done
    hl_langfuse,   \* whether settings.LANGFUSE_PUBLIC_KEY is set
    hl_probes,     \* what each probe made so far did
    hl_health,     \* health_status: status and the entries of services
    hl_resp        \* the HTTP status answered, 0 before

healthVars == <<hl_pc, hl_langfuse, hl_probes, hl_health, hl_resp>>

\* The requests a client of the rate limiter sent lately
VARIABLES
    bg_old,        \* requests the client sent in the TickSeconds before the previous
    bg_prev,       \* requests the client sent in the previous TickSeconds
    bg_cur,        \* requests the client sent in the current TickSeconds
    bg_within      \* so far no WINDOW seconds held more than rl_limit of its requests

budgetVars == <<bg_old, bg_prev, bg_cur, bg_within>>

\* The components modelled last.
lateVars == <<eventVars, monitorVars, reviewVars, evalVars, pubsubVars, metricsVars, turnVars, healthVars, budgetVars>>

\* The event bus, its streams, the cache and the later components.
ioVars == <<busVars, streamVars, cacheVars, lateVars>>

\* The subsystems introduced after the agent.
restVars == <<chatVars, queueVars, ioVars>>

vars == <<rateVars, authVars, sessVars, agentVars, restVars>>

-----------------------------------------------------------------------------
(***************************************************************************)
(* Rate limiting middleware                                                *)
(***************************************************************************)

\* Bounds of the model.
MaxLimit == 3        \* configured limits explored: 1..MaxLimit
NumHandlers == 2     \* requests of one client that may be in flight at once (server processes)
MaxExtra == 2        \* requests beyond the limit a client sends in one window
TickSeconds == 30    \* granularity of the clock

\* Program constants.
WINDOW == 60                 \* pipe.expire(key, 60)

Clients == {"10.0.0.1"}
Handlers == 1..NumHandlers
Limits == 1..MaxLimit

HTTP_OK == 200
HTTP_BAD_REQUEST == 400
HTTP_UNAUTHORIZED == 401
HTTP_FORBIDDEN == 403
HTTP_TOO_MANY == 429
HTTP_SERVER_ERROR == 500

IdleHandler == [pc |-> "idle", client |-> "10.0.0.1", current |-> <<>>,
                arrival |-> 0, status |-> 0, passed |-> FALSE, remaining |-> 0,
                seq |-> TRUE]

\* redis_client.get(key): None (<<>>) when the key is absent, else its value.
RedisGet(store, key) == IF key \in DOMAIN store THEN <<store[key].n>> ELSE <<>>

\* pipe.incr(key); pipe.expire(key, 60); pipe.execute()
RedisIncrExpire(store, key) ==
    LET n == IF key \in DOMAIN store THEN store[key].n + 1 ELSE 1
    IN  [k \in DOMAIN store \cup {key} |->
            IF k = key THEN [n |-> n, ttl |-> WINDOW] ELSE store[k]]

\* Mutant of rejected_store: a rejected request renews the expiry of the key.
rejected_store_renewed(store, key) ==
    [k \in DOMAIN store |-> IF k = key THEN [store[k] EXCEPT !.ttl = WINDOW] ELSE store[k]]

\* dispatch, lines 25-30: a rejected request has read the key and raises; it
\* sends no command that writes.
rejected_store(store, key) == store

\* Mutant of OverLimit: the comparison is strict.
OverLimitStrict(current, limit) == current # <<>> /\ current[1] > limit

\* `if current and int(current) >= settings.RATE_LIMIT_PER_MINUTE`
OverLimit(current, limit) == current # <<>> /\ current[1] >= limit

\* remaining = LIMIT - (int(current) if current else 0) - 1 ; max(0, remaining)
Remaining(current, limit) ==
    LET r == limit - (IF current # <<>> THEN current[1] ELSE 0) - 1
    IN  IF r > 0 THEN r ELSE 0

\* Starlette's middleware stack as main.py builds it: ServerErrorMiddleware is
\* outermost, the user middlewares (Metrics, RateLimit, logging, CORS) follow, and
\* ExceptionMiddleware, which runs http_exception_handler, wraps only the router.
\* An HTTPException raised in RateLimitMiddleware.dispatch therefore never reaches
\* http_exception_handler: MetricsMiddleware records 500 and re-raises, and
\* ServerErrorMiddleware answers with general_exception_handler's response.
MiddlewareRaiseStatus(exc_status) == HTTP_SERVER_ERROR

\* Requests admitted since the key was created: every admitted request INCRs it once.
AdmittedInWindow(c) == IF c \in DOMAIN rl_store THEN rl_store[c].n ELSE 0

InFlight(h, c) == rl_h[h].pc = "admit" /\ rl_h[h].client = c

OthersInFlight(h, c) == \E g \in Handlers \ {h} : InFlight(g, c)

\* dispatch, lines 19-30: identify the client, read the counter, reject or go on.
RLRead(h, c) ==
    /\ rl_h[h].pc = "idle"
    /\ rl_arrivals[c] < rl_limit + MaxExtra
    /\ LET current == RedisGet(rl_store, c)
           k == rl_arrivals[c] + 1
       IN  /\ rl_arrivals' = [rl_arrivals EXCEPT ![c] = k]
           /\ rl_raced' = [rl_raced EXCEPT ![c] = @ \/ OthersInFlight(h, c)]
           /\ IF OverLimit(current, rl_limit)
              THEN /\ rl_h' = [rl_h EXCEPT ![h] =
                         [pc |-> "done", client |-> c, current |-> current, arrival |-> k,
                          status |-> MiddlewareRaiseStatus(HTTP_TOO_MANY),
                          passed |-> FALSE, remaining |-> 0,
                          seq |-> ~rl_raced'[c]]]
                   /\ rl_metrics' = rl_metrics \cup {HTTP_SERVER_ERROR}
                   /\ rl_store' = rejected_store(rl_store, c)
              ELSE /\ rl_h' = [rl_h EXCEPT ![h] =
                         [pc |-> "admit", client |-> c, current |-> current, arrival |-> k,
                          status |-> 0, passed |-> FALSE, remaining |-> 0,
                          seq |-> ~rl_raced'[c]]]
                   /\ UNCHANGED <<rl_metrics, rl_store>>
    /\ UNCHANGED <<rl_limit, rl_sinceAdmit>>

\* dispatch, lines 32-47: INCR + EXPIRE, call_next, rate-limit headers.
RLIncrement(h) ==
    /\ rl_h[h].pc = "admit"
    /\ LET c == rl_h[h].client
       IN  /\ rl_store' = RedisIncrExpire(rl_store, c)
           /\ rl_raced' = [rl_raced EXCEPT ![c] = @ \/ OthersInFlight(h, c)]
           /\ rl_sinceAdmit' = [rl_sinceAdmit EXCEPT ![c] = 0]
           /\ rl_h' = [rl_h EXCEPT ![h] =
                  [@ EXCEPT !.pc = "done", !.status = HTTP_OK, !.passed = TRUE,
                            !.remaining = Remaining(rl_h[h].current, rl_limit),
                            !.seq = ~rl_raced'[c]]]
           /\ rl_metrics' = rl_metrics \cup {HTTP_OK}
    /\ UNCHANGED <<rl_limit, rl_arrivals>>

\* The response has been sent; the slot serves the next request.
RLFinish(h) ==
    /\ rl_h[h].pc = "done"
    /\ rl_h' = [rl_h EXCEPT ![h] = IdleHandler]
    /\ UNCHANGED <<rl_limit, rl_store, rl_arrivals, rl_raced, rl_sinceAdmit, rl_metrics>>

Min(a, b) == IF a < b THEN a ELSE b

\* TickSeconds pass: Redis counts the keys' expiries down and drops the expired keys.
RLTick ==
    LET live == {k \in DOMAIN rl_store : rl_store[k].ttl > TickSeconds}
        gone == DOMAIN rl_store \ live
    IN  /\ rl_store' = [k \in live |-> [rl_store[k] EXCEPT !.ttl = @ - TickSeconds]]
        /\ rl_sinceAdmit' = [c \in Clients |-> Min(rl_sinceAdmit[c] + TickSeconds, WINDOW)]
        /\ rl_arrivals' = [c \in Clients |->
               IF c \in gone THEN 0 ELSE rl_arrivals[c]]
        /\ rl_raced' = [c \in Clients |->
               IF c \in gone THEN \E h \in Handlers : InFlight(h, c)
               ELSE rl_raced[c]]
        /\ rl_store' # rl_store \/ rl_sinceAdmit' # rl_sinceAdmit
        /\ UNCHANGED <<rl_limit, rl_h, rl_metrics>>

NoRequest == [route |-> "none", required |-> "user", token |-> "none", user_id |-> "u1",
              role_meta |-> "<absent>", header |-> <<>>, body_ok |-> TRUE]

AuthIdle ==
    /\ au_key = ""
    /\ au_req = NoRequest
    /\ au_pc = "idle"
    /\ au_user = <<>>
    /\ au_dep = <<>>
    /\ au_granted = FALSE
    /\ au_status = 0
    /\ au_ran = FALSE

NoCall == [kind |-> "none", user_message |-> "", session_id |-> <<>>]

AgentIdle ==
    /\ ag_pc = "idle"
    /\ ag_call = NoCall
    /\ ag_attempt = 0
    /\ ag_runs = 0
    /\ ag_log = << >>
    /\ ag_text = << >>
    /\ ag_result = << >>
    /\ ag_calls = 0

NoChat == [route |-> "none", message |-> "", session_id |-> <<>>, agent_name |-> <<>>,
           user |-> <<>>]

NoResponse == [status |-> 0, body |-> <<>>]

ChatIdle ==
    /\ ch_pc = "idle"
    /\ ch_req = NoChat
    /\ ch_sid = ""
    /\ ch_text = << >>
    /\ ch_resp = NoResponse
    /\ ch_log = {}
    /\ ch_count = 0

NoEnqueue == [task_name |-> "", kwargs |-> <<>>, returned |-> <<>>, raised |-> FALSE,
              submitted |-> 0, broker_ok |-> TRUE]

IdleWorker == [pc |-> "idle", job |-> 0]

QueueIdle ==
    /\ tq_jobs = << >>
    /\ tq_call = NoEnqueue
    /\ tq_worker = IdleWorker

BusSessions == {"s1", "s2"}

\* channels.py
session_channel(session_id) == "session:" \o session_id
broadcast_channel == "broadcast:all"

Channels == { session_channel(sid) : sid \in BusSessions } \cup {broadcast_channel}

NoEvent == [event_id |-> "", session_id |-> "", timestamp |-> <<"datetime", "">>, type |-> "",
            payload |-> <<"dict", "">>]

NoPublish == [pc |-> "idle", op |-> "", target |-> "", event |-> NoEvent, broadcast |-> FALSE,
              todo |-> <<>>, raised |-> FALSE, error |-> FALSE,
              before |-> [c \in Channels |-> 0]]

BusIdle ==
    /\ bus_channels = [c \in Channels |-> << >>]
    /\ bus_pub = NoPublish
    /\ bus_count = 0

StreamIdle ==
    /\ sse_status = 0
    /\ sse_pc = "idle"
    /\ sse_client = "none"
    /\ sse_out = << >>
    /\ stop_event = FALSE
    /\ st_pc = "none"
    /\ st_sub = FALSE
    /\ st_unsub = "no"
    /\ st_closed = FALSE
    /\ st_exc = ""
    /\ st_polled = 0

CacheKeys == {"k1", "k2"}

\* Python values: None, and the JSON values used as cache values.
PyNone == <<"null", 0>>

NoCacheCall == [op |-> "", key |-> "", returned |-> PyNone, raised |-> FALSE, broker_ok |-> TRUE]

NoWrite == [op |-> "", value |-> PyNone, until |-> 0, returned |-> PyNone]

CacheIdle ==
    /\ cache_ping = TRUE
    /\ cache_client = TRUE
    /\ cache_store = [k \in CacheKeys |-> << >>]
    /\ cache_now = 0
    /\ cache_call = NoCacheCall
    /\ cache_last = [k \in CacheKeys |-> NoWrite]
    /\ cache_touched = FALSE
    /\ cache_writes = 0

NoJson == [event_id |-> "", session_id |-> "", timestamp |-> "", type |-> "", payload |-> ""]

EventIdle ==
    /\ ev_pc = "none"
    /\ ev_event = NoEvent
    /\ ev_json = NoJson
    /\ ev_back = NoEvent

NoChecks == [docker |-> << >>, disk |-> << >>, memory |-> << >>]

MonitorIdle ==
    /\ mon_pc = "idle"
    /\ mon_checks = NoChecks
    /\ mon_metrics = << >>
    /\ mon_log = << >>
    /\ mon_result = ""

NoReport == [static_analysis |-> 0, security_scan |-> 0, best_practices |-> 0, closing |-> ""]

NoReviewState ==
    [code |-> "", static_analysis_result |-> << >>, security_scan_result |-> << >>,
     best_practices_result |-> << >>, final_report |-> NoReport, errors |-> << >>]

ReviewIdle ==
    /\ wf_pc = "idle"
    /\ wf_caller = ""
    /\ wf_input = NoReviewState
    /\ wf_state = NoReviewState
    /\ wf_trace = << >>
    /\ wf_result = ""

EvalIdle ==
    /\ eval_pc = "idle"
    /\ eval_agent = ""
    /\ eval_ragas = FALSE
    /\ eval_cases = << >>
    /\ eval_i = 0
    /\ eval_answers = << >>
    /\ eval_results = << >>

PubsubIdle ==
    /\ st_session = ""
    /\ ps_inbox = << >>
    /\ ps_log = << >>
    /\ st_yielded = << >>

MwRequests == {"r1", "r2"}
MwMethods == {"GET", "POST"}
MwEndpoints == {"/health", "/api/chat"}
MwStatuses == {200, 404, 500}

NoMwRequest == [method |-> "", endpoint |-> ""]
NoMwResult == [kind |-> "", status |-> 0]
NoMwTrace == [incs |-> 0, obs |-> 0, status |-> << >>]

MetricsIdle ==
    /\ mm_pc = [r \in MwRequests |-> "idle"]
    /\ mm_req = [r \in MwRequests |-> NoMwRequest]
    /\ mm_counter = [l \in MwMethods \X MwEndpoints \X MwStatuses |-> 0]
    /\ mm_hist = [l \in MwMethods \X MwEndpoints |-> 0]
    /\ mm_result = [r \in MwRequests |-> NoMwResult]
    /\ mm_trace = [r \in MwRequests |-> NoMwTrace]

TnRequests == {"t1", "t2", "t3"}

NoTurn == [message |-> "", agent_name |-> <<>>]

TurnIdle ==
    /\ tn_pc = [r \in TnRequests |-> "waiting"]
    /\ tn_req = [r \in TnRequests |-> NoTurn]
    /\ tn_attempt = [r \in TnRequests |-> 0]
    /\ tn_status = [r \in TnRequests |-> 0]
    /\ tn_arrived = << >>

NoHealth == [status |-> "", services |-> << >>]

HealthIdle ==
    /\ hl_pc = "idle"
    /\ hl_langfuse = FALSE
    /\ hl_probes = << >>
    /\ hl_health = NoHealth
    /\ hl_resp = 0

BudgetIdle ==
    /\ bg_old = 0
    /\ bg_prev = 0
    /\ bg_cur = 0
    /\ bg_within = TRUE

LateIdle ==
    /\ EventIdle
    /\ MonitorIdle
    /\ ReviewIdle
    /\ EvalIdle
    /\ PubsubIdle
    /\ MetricsIdle
    /\ TurnIdle
    /\ HealthIdle
    /\ BudgetIdle

IoIdle ==
    /\ BusIdle
    /\ StreamIdle
    /\ CacheIdle
    /\ LateIdle

RestIdle ==
    /\ ChatIdle
    /\ tq_enabled = TRUE
    /\ QueueIdle
    /\ IoIdle

\* Bounds of the session model.
MaxTurns == 2        \* add_event calls started in one run

Procs == {"w1", "w2"}   \* server processes sharing the store
Sessions == {"s1"}
Users == {"A", "B"}

IdleProc == [op |-> "idle", pc |-> "idle", sid |-> "s1", uid |-> "A", ev |-> <<>>,
             events |-> <<>>, res |-> <<>>, status |-> "", owner |-> <<>>, n |-> 0]

SessIdle ==
    /\ ss_sessions = << >>
    /\ ss_history = << >>
    /\ ss_p = [p \in Procs |-> IdleProc]
    /\ ss_hist = [sid \in Sessions |-> [turns |-> <<>>, updates |-> 0, insertFailed |-> FALSE]]
    /\ ss_started = 0

RateIdle ==
    /\ rl_store = << >>
    /\ rl_h = [h \in Handlers |-> IdleHandler]
    /\ rl_arrivals = [c \in Clients |-> 0]
    /\ rl_raced = [c \in Clients |-> FALSE]
    /\ rl_sinceAdmit = [c \in Clients |-> WINDOW]
    /\ rl_metrics = {}

InitRate ==
    /\ rl_limit \in Limits
    /\ RateIdle
    /\ AuthIdle
    /\ SessIdle
    /\ AgentIdle
    /\ RestIdle

RateFrame == UNCHANGED <<authVars, sessVars, agentVars, restVars>>

NextRate ==
    \/ \E h \in Handlers, c \in Clients : RLRead(h, c) /\ RateFrame
    \/ \E h \in Handlers : RLIncrement(h) /\ RateFrame
    \/ \E h \in Handlers : RLFinish(h) /\ RateFrame
    \/ RLTick /\ RateFrame

SpecRate == InitRate /\ [][NextRate]_vars

\* Dispatch-level boundary: with the client's requests handled one after another,
\* the request is passed on to call_next exactly when it is among the first
\* rl_limit of its window.
RateSequentialDecision ==
    \A h \in Handlers :
        (rl_h[h].pc = "done" /\ rl_h[h].seq)
            => (rl_h[h].passed <=> rl_h[h].arrival <= rl_limit)

\* C1: for one client sending requests one after another inside a single window
\* with limit L, requests 1..L are admitted, request L+1 is rejected with status
\* 429, and once the window has elapsed the counter is reset (so that the next
\* request, the first of a new window, is admitted).
C1_RateLimiterBoundary ==
    /\ \A h \in Handlers :
          (rl_h[h].pc = "done" /\ rl_h[h].seq) =>
              /\ rl_h[h].arrival <= rl_limit => (rl_h[h].passed /\ rl_h[h].status = HTTP_OK)
              /\ rl_h[h].arrival = rl_limit + 1 =>
                     (~rl_h[h].passed /\ rl_h[h].status = HTTP_TOO_MANY)
    /\ \A c \in Clients : rl_sinceAdmit[c] >= WINDOW => c \notin DOMAIN rl_store

\* The part of C1 that does not name the response status.
C1_AdmissionAndReset ==
    /\ RateSequentialDecision
    /\ \A c \in Clients : rl_sinceAdmit[c] >= WINDOW => c \notin DOMAIN rl_store

\* C2: the GET and the later INCR are separate round trips, so requests of one
\* client handled concurrently can all pass the check on the same count: more than
\* the limit can be admitted within one window (C2_OverAdmitted is reachable), but
\* only through such an interleaving, and by no more than the other requests in
\* flight.
C2_OverAdmissionOnlyByRace ==
    \A c \in Clients :
        /\ AdmittedInWindow(c) <= rl_limit + NumHandlers - 1
        /\ AdmittedInWindow(c) > rl_limit => rl_raced[c]

C2_OverAdmitted == \E c \in Clients : AdmittedInWindow(c) > rl_limit

\* A handler rejects a request in this step.
Rejects(h) == rl_h[h].pc = "idle" /\ rl_h'[h].pc = "done" /\ ~rl_h'[h].passed

\* C33: a rejected request leaves the client's counter and its expiry as they
\* were, so the key of a limited client is gone, and its next request
\* admitted, once 60 seconds have passed since its last admitted request,
\* however many requests were rejected meanwhile.
C33_RejectionLeavesCounter ==
    /\ [][\A h \in Handlers : Rejects(h) => rl_store' = rl_store]_vars
    /\ [](\A c \in Clients : rl_sinceAdmit[c] >= WINDOW => c \notin DOMAIN rl_store)
    /\ [][\A h \in Handlers :
             Rejects(h) => rl_sinceAdmit[rl_h'[h].client] < WINDOW]_vars

\* A limited client was rejected less than 60 seconds after its last admitted
\* request, with the expiry of its key already counted down.
C33_Witness ==
    \E h \in Handlers :
        /\ rl_h[h].pc = "done" /\ ~rl_h[h].passed
        /\ rl_h[h].client \in DOMAIN rl_store
        /\ rl_store[rl_h[h].client].ttl < WINDOW
        /\ rl_sinceAdmit[rl_h[h].client] > 0

-----------------------------------------------------------------------------
(***************************************************************************)
(* Authentication, RBAC and the service API key                            *)
(***************************************************************************)

\* class Role(str, Enum)
Roles == {"user", "admin", "agent", "service"}

UserIds == {"u1", "u2"}

\* What the identity record's user_metadata may hold under "role": a role name in
\* any letter case, an unknown name, no entry, or a value that is not a string.
RoleMeta == {"user", "admin", "agent", "service", "ADMIN", "Agent", "root",
             "<absent>", "<null>"}

\* The bearer credentials of a request, by what verifying them does: no
\* Authorization header, a token Supabase rejects with an error, a failure of
\* the identity backend, a response without a user, a verified token.
Tokens == {"none", "malformed", "backend_error", "unknown_user", "valid"}
Unverifiable == {"malformed", "backend_error", "unknown_user"}

\* Values of the X-API-Key header and of the configured service key.
KeyValues == {"", "k1", "k2"}

\* Mutant of role_hierarchy: the admin row also holds the service role.
role_hierarchy_admin_service ==
    [r \in Roles |->
        CASE r = "user"    -> {"user"}
          [] r = "agent"   -> {"user", "agent"}
          [] r = "admin"   -> {"user", "agent", "admin", "service"}
          [] r = "service" -> {"service"}]

\* UserContext.has_role: role_hierarchy
role_hierarchy ==
    [r \in Roles |->
        CASE r = "user"    -> {"user"}
          [] r = "agent"   -> {"user", "agent"}
          [] r = "admin"   -> {"user", "agent", "admin"}
          [] r = "service" -> {"service"}]

\* UserContext.has_role(required_role)
has_role(role, required_role) == required_role \in role_hierarchy[role]

\* str.lower() on the role names the model draws from
Lower(str) ==
    CASE str = "ADMIN" -> "admin"
      [] str = "Agent" -> "agent"
      [] OTHER -> str

\* role_str = user_metadata.get("role", "user"); Role(role_str.lower()), USER on ValueError
ParseRole(role_meta) ==
    LET role_str == IF role_meta = "<absent>" THEN "user" ELSE role_meta
    IN  IF Lower(role_str) \in Roles THEN Lower(role_str) ELSE "user"

\* Mutant of get_current_user: a response without a user yields a default context.
get_current_user_default(req) ==
    CASE req.token = "none" -> <<>>
      [] req.token \in {"malformed", "backend_error"} -> <<>>
      [] req.token = "unknown_user" -> << [user_id |-> req.user_id, role |-> "user"] >>
      [] req.role_meta = "<null>" -> <<>>
      [] OTHER -> << [user_id |-> req.user_id, role |-> ParseRole(req.role_meta)] >>

\* get_current_user: None without credentials; None when get_user raises (JWTError,
\* any Exception), when the response holds no user, and when building the context
\* raises (role_str.lower() on a value that is not a string); else the UserContext.
get_current_user(req) ==
    CASE req.token = "none" -> <<>>
      [] req.token \in {"malformed", "backend_error"} -> <<>>
      [] req.token = "unknown_user" -> <<>>
      [] req.role_meta = "<null>" -> <<>>
      [] OTHER -> << [user_id |-> req.user_id, role |-> ParseRole(req.role_meta)] >>

\* Mutant of role_checker_passes: the arguments of has_role are swapped.
role_checker_swapped(user, required_role) == has_role(required_role, user.role)

\* role_checker: `if not user.has_role(required_role): raise 403`
role_checker_passes(user, required_role) == has_role(user.role, required_role)

\* Mutant of verify_api_key: the emptiness test is missing.
verify_api_key_no_empty_test(header, service_key) ==
    header # <<>> /\ header[1] = service_key

\* verify_api_key: request.headers.get("X-API-Key"); `if not api_key: return False`;
\* `if api_key == settings.SUPABASE_SERVICE_KEY: return True`; else False
verify_api_key(header, service_key) ==
    IF header = <<>> \/ header[1] = "" THEN FALSE
    ELSE header[1] = service_key

ProtectedRoutes == {"list_agents", "delete_agent", "role_route"}
WebhookRoutes == {"n8n_webhook", "alert_webhook"}

\* A request arrives. list_agents is GET /api/agents/ (require_auth), delete_agent is
\* DELETE /api/agents/{name} (require_role(Role.ADMIN)), role_route stands for a
\* route declared with require_role(required) for any role.
AuthRequest ==
    /\ au_pc = "idle"
    /\ \/ \E route \in ProtectedRoutes, required \in Roles, token \in Tokens,
            uid \in UserIds, meta \in RoleMeta :
            /\ route = "list_agents" => required = "user"
            /\ route = "delete_agent" => required = "admin"
            /\ token # "valid" => (uid = "u1" /\ meta = "<absent>")
            /\ au_req' = [route |-> route, required |-> required, token |-> token,
                          user_id |-> uid, role_meta |-> meta, header |-> <<>>,
                          body_ok |-> TRUE]
            /\ au_pc' = "get_current_user"
       \/ \E route \in WebhookRoutes, header \in {<<>>} \cup {<<k>> : k \in KeyValues},
            body_ok \in BOOLEAN :
            /\ route = "alert_webhook" => body_ok
            /\ au_req' = [NoRequest EXCEPT !.route = route, !.header = header,
                                           !.body_ok = body_ok]
            /\ au_pc' = "api_key_checker"
    /\ au_user' = <<>>
    /\ au_dep' = <<>>
    /\ au_granted' = FALSE
    /\ au_status' = 0
    /\ au_ran' = FALSE
    /\ UNCHANGED au_key

\* Depends(get_current_user)
AuthGetCurrentUser ==
    /\ au_pc = "get_current_user"
    /\ au_user' = get_current_user(au_req)
    /\ au_pc' = "require_auth"
    /\ UNCHANGED <<au_key, au_req, au_dep, au_granted, au_status, au_ran>>

\* require_auth: 401 with the Bearer challenge when there is no user. The
\* HTTPException is raised below ExceptionMiddleware, so the status is the response's.
AuthRequireAuth ==
    /\ au_pc = "require_auth"
    /\ IF au_user = <<>>
       THEN /\ au_status' = HTTP_UNAUTHORIZED
            /\ au_pc' = "done"
            /\ au_dep' = <<>>
       ELSE /\ au_status' = 0
            /\ au_pc' = IF au_req.route = "list_agents" THEN "handler" ELSE "role_checker"
            /\ au_dep' = IF au_req.route = "list_agents" THEN au_user ELSE <<>>
    /\ UNCHANGED <<au_key, au_req, au_user, au_granted, au_ran>>

\* require_role(required_role).role_checker
AuthRoleChecker ==
    /\ au_pc = "role_checker"
    /\ au_granted' = role_checker_passes(au_user[1], au_req.required)
    /\ IF au_granted'
       THEN /\ au_status' = 0
            /\ au_pc' = "handler"
            /\ au_dep' = au_user
       ELSE /\ au_status' = HTTP_FORBIDDEN
            /\ au_pc' = "done"
            /\ au_dep' = <<>>
    /\ UNCHANGED <<au_key, au_req, au_user, au_ran>>

\* require_api_key().api_key_checker
AuthApiKeyChecker ==
    /\ au_pc = "api_key_checker"
    /\ au_granted' = verify_api_key(au_req.header, au_key)
    /\ IF au_granted'
       THEN /\ au_status' = 0
            /\ au_pc' = "handler"
            /\ au_dep' = <<TRUE>>
       ELSE /\ au_status' = HTTP_UNAUTHORIZED
            /\ au_pc' = "done"
            /\ au_dep' = <<>>
    /\ UNCHANGED <<au_key, au_req, au_user, au_ran>>

\* The route's body: list_agents, delete_agent and alert_webhook answer 200;
\* n8n_webhook answers 400 when request.json() fails.
AuthHandler ==
    /\ au_pc = "handler"
    /\ au_ran' = TRUE
    /\ au_status' = IF au_req.route = "n8n_webhook" /\ ~au_req.body_ok
                    THEN HTTP_BAD_REQUEST ELSE HTTP_OK
    /\ au_pc' = "done"
    /\ UNCHANGED <<au_key, au_req, au_user, au_dep, au_granted>>

\* The response is sent.
AuthFinish ==
    /\ au_pc = "done"
    /\ au_pc' = "idle"
    /\ au_req' = NoRequest
    /\ au_user' = <<>>
    /\ au_dep' = <<>>
    /\ au_granted' = FALSE
    /\ au_status' = 0
    /\ au_ran' = FALSE
    /\ UNCHANGED au_key

InitAuth ==
    /\ au_key \in KeyValues
    /\ au_req = NoRequest /\ au_pc = "idle" /\ au_user = <<>> /\ au_dep = <<>>
    /\ au_granted = FALSE /\ au_status = 0 /\ au_ran = FALSE
    /\ rl_limit = 1
    /\ RateIdle
    /\ SessIdle
    /\ AgentIdle
    /\ RestIdle

AuthFrame == UNCHANGED <<rateVars, sessVars, agentVars, restVars>>

NextAuth ==
    \/ AuthRequest /\ AuthFrame
    \/ AuthGetCurrentUser /\ AuthFrame
    \/ AuthRequireAuth /\ AuthFrame
    \/ AuthRoleChecker /\ AuthFrame
    \/ AuthApiKeyChecker /\ AuthFrame
    \/ AuthHandler /\ AuthFrame
    \/ AuthFinish /\ AuthFrame

SpecAuth == InitAuth /\ [][NextAuth]_vars

\* The role hierarchy as the specification states it: a held role satisfies
\* itself, admin satisfies user and agent, agent satisfies user.
Satisfies(held, required) ==
    \/ held = required
    \/ held = "admin" /\ required \in {"user", "agent"}
    \/ held = "agent" /\ required = "user"

RoleChecked ==
    /\ au_req.route \in {"delete_agent", "role_route"}
    /\ au_pc \in {"handler", "done"}
    /\ au_user # <<>>

C5_RoleHierarchy ==
    RoleChecked =>
        LET held == au_user[1].role
            required == au_req.required
        IN  /\ held = required => au_granted
            /\ (held = "admin" /\ required \in {"user", "agent"}) => au_granted
            /\ (held = "agent" /\ required = "user") => au_granted
            /\ (held \in {"user", "agent"} /\ required = "admin") => ~au_granted
            /\ (held = "service" /\ required # "service") => ~au_granted
            /\ (held # "service" /\ required = "service") => ~au_granted

C5_Witness ==
    /\ RoleChecked /\ au_user[1].role = "admin" /\ au_req.required = "agent"
    /\ au_granted

\* C6: require_role(r) hands the user context to the route if and only if an
\* identity is resolved and its role satisfies r; the response is 401 when no
\* identity is resolved and 403 when the identity's role does not satisfy r.
C6_RequireRole ==
    (au_req.route \in {"delete_agent", "role_route"} /\ au_pc \in {"handler", "done"}) =>
        LET resolved == au_user # <<>>
            sat == resolved /\ Satisfies(au_user[1].role, au_req.required)
        IN  /\ au_dep # <<>> <=> sat
            /\ au_dep # <<>> => au_dep = au_user
            /\ (au_pc = "done" /\ ~resolved) => (au_status = HTTP_UNAUTHORIZED /\ ~au_ran)
            /\ (au_pc = "done" /\ resolved /\ ~sat) => (au_status = HTTP_FORBIDDEN /\ ~au_ran)
            /\ (au_pc = "done" /\ sat) => (au_status = HTTP_OK /\ au_ran)

C6_Witness ==
    /\ au_req.route = "role_route" /\ au_pc = "done" /\ au_user # <<>>
    /\ au_user[1].role = "agent" /\ au_req.required = "admin"
    /\ au_status = HTTP_FORBIDDEN

\* C7: a webhook request passes the API-key check if and only if it carries an
\* X-API-Key header (a non-empty value) equal to the configured service key; a
\* missing, empty or different key is answered 401 and the route body does not
\* run, also when the configured service key is the empty default.
C7_ApiKeyCheck ==
    (au_req.route \in WebhookRoutes /\ au_pc \in {"handler", "done"}) =>
        LET carries == /\ au_req.header # <<>>
                       /\ au_req.header[1] # ""
                       /\ au_req.header[1] = au_key
        IN  /\ au_granted <=> carries
            /\ (au_pc = "done" /\ ~carries) => (au_status = HTTP_UNAUTHORIZED /\ ~au_ran)
            /\ (au_pc = "done" /\ carries) => (au_status # HTTP_UNAUTHORIZED /\ au_ran)

C7_Witness ==
    /\ au_req.route = "n8n_webhook" /\ au_pc = "done"
    /\ au_key = "" /\ au_req.header = <<"">>
    /\ au_status = HTTP_UNAUTHORIZED /\ ~au_ran

-----------------------------------------------------------------------------
(***************************************************************************)
(* Session service and GET /api/chat/sessions/{session_id}                 *)
(*                                                                         *)
(* Every method of SessionService is one or more round trips to the store; *)
(* a round trip either succeeds or raises (ok).  Several server processes  *)
(* share the store, so the round trips of different calls interleave.      *)
(***************************************************************************)

HISTORY_LIMIT == 50   \* get_session_history(session_id, limit=50)

Messages == <<"m1", "m2", "m3", "m4">>

\* The n-th turn the callers record: {user_message, agent_response, agent_name, metadata}
TurnOf(n) == [user_message |-> Messages[n], agent_response |-> "re: " \o Messages[n],
              agent_name |-> "default", metadata |-> "{}"]

Turns == { TurnOf(n) : n \in 1..Len(Messages) }

\* dict.get(key, default)
DictGet(dict, key, default) == IF key \in DOMAIN dict THEN dict[key] ELSE default

\* create_session: session_data (app_name and state are not read by any claim)
NewSession(session_id, user_id) ==
    [session_id |-> session_id, user_id |-> user_id, events |-> <<>>]

\* Mutant of HistoryRow: the agent name is read under a key the event does not hold.
HistoryRowWrongKey(session_id, event) ==
    [session_id |-> session_id,
     user_message |-> DictGet(event, "user_message", ""),
     agent_response |-> DictGet(event, "agent_response", ""),
     agent_name |-> DictGet(event, "agent", "unknown"),
     metadata |-> DictGet(event, "metadata", "{}")]

\* add_event: the row inserted into session_history
HistoryRow(session_id, event) ==
    [session_id |-> session_id,
     user_message |-> DictGet(event, "user_message", ""),
     agent_response |-> DictGet(event, "agent_response", ""),
     agent_name |-> DictGet(event, "agent_name", "unknown"),
     metadata |-> DictGet(event, "metadata", "{}")]

\* Mutant of get_session: an unknown id yields a fresh row instead of None.
get_session_or_new(sessions, session_id, ok) ==
    IF ~ok THEN <<>>
    ELSE IF session_id \in DOMAIN sessions THEN <<sessions[session_id]>>
    ELSE <<[session_id |-> session_id, user_id |-> "", events |-> <<>>]>>

\* get_session: the row with that session_id, None (<<>>) when there is none or
\* when the query raises (the exception is logged and swallowed).
get_session(sessions, session_id, ok) ==
    IF ok /\ session_id \in DOMAIN sessions THEN <<sessions[session_id]>> ELSE <<>>

RECURSIVE RowsOf(_, _)
\* .eq("session_id", session_id).order("created_at", desc=True): newest first
RowsOf(history, session_id) ==
    IF history = <<>> THEN <<>>
    ELSE LET rest == RowsOf(SubSeq(history, 1, Len(history) - 1), session_id)
             last == history[Len(history)]
         IN  IF last.session_id = session_id THEN <<last>> \o rest ELSE rest

\* get_session_history: the newest `limit` rows of the session, [] when the query raises.
get_session_history(history, session_id, ok) ==
    IF ok
    THEN LET rows == RowsOf(history, session_id)
         IN  SubSeq(rows, 1, Min(Len(rows), HISTORY_LIMIT))
    ELSE <<>>

\* adk_sessions is keyed by session_id: inserting a second row for an id fails.
InsertAllowed(sessions, session_id) == session_id \notin DOMAIN sessions

PutSession(sessions, row_key, row) ==
    [k \in DOMAIN sessions \cup {row_key} |-> IF k = row_key THEN row ELSE sessions[k]]

\* A process takes up a call: create_session followed by get_session,
\* add_event, or the session-history route for an authenticated caller.
SSStart(p, op, sid, uid, ev) ==
    /\ ss_p[p].pc = "idle"
    /\ op \in {"create_fetch", "add_event", "history_route"}
    /\ op = "add_event" => (ss_started < MaxTurns /\ ev = TurnOf(ss_started + 1) /\ uid = "A")
    /\ op # "add_event" => ev = <<>>
    /\ ss_started' = IF op = "add_event" THEN ss_started + 1 ELSE ss_started
    /\ ss_p' = [ss_p EXCEPT ![p] =
           [IdleProc EXCEPT !.op = op, !.sid = sid, !.uid = uid, !.ev = ev,
                            !.pc = CASE op = "create_fetch" -> "insert"
                                     [] op = "add_event" -> "get"
                                     [] op = "history_route" -> "check"]]
    /\ UNCHANGED <<ss_sessions, ss_history, ss_hist>>

\* create_session: insert the row; a store failure is re-raised.
SSCreate(p, ok) ==
    /\ ss_p[p].pc = "insert"
    /\ LET sid == ss_p[p].sid
           done == ok /\ InsertAllowed(ss_sessions, sid)
       IN  /\ ss_sessions' = IF done
                             THEN PutSession(ss_sessions, sid, NewSession(sid, ss_p[p].uid))
                             ELSE ss_sessions
           /\ ss_p' = [ss_p EXCEPT ![p] =
                  [@ EXCEPT !.status = IF done THEN "created" ELSE "raised",
                            !.pc = IF done THEN "fetch" ELSE "done"]]
    /\ UNCHANGED <<ss_history, ss_hist, ss_started>>

\* get_session right after a create_session that succeeded.
SSFetch(p, ok) ==
    /\ ss_p[p].pc = "fetch"
    /\ ss_p' = [ss_p EXCEPT ![p] =
           [@ EXCEPT !.res = get_session(ss_sessions, ss_p[p].sid, ok),
                     !.status = IF ok THEN "fetched" ELSE "fetch_failed",
                     !.n = ss_hist[ss_p[p].sid].updates,
                     !.pc = "done"]]
    /\ UNCHANGED <<ss_sessions, ss_history, ss_hist, ss_started>>

\* add_event, lines 80-86: read the session, append the event to its list.
SSAddGet(p, ok) ==
    /\ ss_p[p].op = "add_event" /\ ss_p[p].pc = "get"
    /\ LET session == get_session(ss_sessions, ss_p[p].sid, ok)
       IN  ss_p' = [ss_p EXCEPT ![p] =
               IF session = <<>>
               THEN [@ EXCEPT !.status = "false", !.pc = "done"]
               ELSE [@ EXCEPT !.events = Append(session[1].events, ss_p[p].ev),
                              !.pc = "update"]]
    /\ UNCHANGED <<ss_sessions, ss_history, ss_hist, ss_started>>

\* add_event, lines 88-91: write the list back.
SSAddUpdate(p, ok) ==
    /\ ss_p[p].op = "add_event" /\ ss_p[p].pc = "update"
    /\ LET sid == ss_p[p].sid
       IN  IF ok
           THEN /\ ss_sessions' = [ss_sessions EXCEPT ![sid].events = ss_p[p].events]
                /\ ss_hist' = [ss_hist EXCEPT ![sid].updates = @ + 1]
                /\ ss_p' = [ss_p EXCEPT ![p].pc = "insert_history"]
           ELSE /\ ss_p' = [ss_p EXCEPT ![p] = [@ EXCEPT !.status = "false", !.pc = "done"]]
                /\ UNCHANGED <<ss_sessions, ss_hist>>
    /\ UNCHANGED <<ss_history, ss_started>>

\* add_event, lines 93-107: insert the session_history row, return True;
\* False when the insert raises.
SSAddInsert(p, ok) ==
    /\ ss_p[p].op = "add_event" /\ ss_p[p].pc = "insert_history"
    /\ LET sid == ss_p[p].sid
       IN  IF ok
           THEN /\ ss_history' = Append(ss_history, HistoryRow(sid, ss_p[p].ev))
                /\ ss_hist' = [ss_hist EXCEPT ![sid].turns = Append(@, ss_p[p].ev)]
                /\ ss_p' = [ss_p EXCEPT ![p] = [@ EXCEPT !.status = "true", !.pc = "done"]]
           ELSE /\ ss_hist' = [ss_hist EXCEPT ![sid].insertFailed = TRUE]
                /\ ss_p' = [ss_p EXCEPT ![p] = [@ EXCEPT !.status = "false", !.pc = "done"]]
                /\ UNCHANGED ss_history
    /\ UNCHANGED <<ss_sessions, ss_started>>

\* GET /sessions/{session_id}, lines 166-172: look the session up, 403 when it
\* belongs to another user. owner records who owned the session at that moment.
SSRouteCheck(p, ok) ==
    /\ ss_p[p].op = "history_route" /\ ss_p[p].pc = "check"
    /\ LET sid == ss_p[p].sid
           session == get_session(ss_sessions, sid, ok)
           owner == IF sid \in DOMAIN ss_sessions THEN <<ss_sessions[sid].user_id>> ELSE <<>>
       IN  ss_p' = [ss_p EXCEPT ![p] =
               IF session # <<>> /\ session[1].user_id # ss_p[p].uid
               THEN [@ EXCEPT !.owner = owner, !.status = "403", !.pc = "done"]
               ELSE [@ EXCEPT !.owner = owner, !.pc = "history"]]
    /\ UNCHANGED <<ss_sessions, ss_history, ss_hist, ss_started>>

\* GET /sessions/{session_id}, lines 174-178: answer with the history rows.
SSRouteHistory(p, ok) ==
    /\ ss_p[p].op = "history_route" /\ ss_p[p].pc = "history"
    /\ ss_p' = [ss_p EXCEPT ![p] =
           [@ EXCEPT !.res = get_session_history(ss_history, ss_p[p].sid, ok),
                     !.status = IF ok THEN "200" ELSE "200_query_failed",
                     !.events = ss_hist[ss_p[p].sid].turns,
                     !.pc = "done"]]
    /\ UNCHANGED <<ss_sessions, ss_history, ss_hist, ss_started>>

\* The call has returned.
SSFinish(p) ==
    /\ ss_p[p].pc = "done"
    /\ ss_p' = [ss_p EXCEPT ![p] = IdleProc]
    /\ UNCHANGED <<ss_sessions, ss_history, ss_hist, ss_started>>

\* A row of another session that the table may already hold.
OtherSessionRow == HistoryRow("s0", TurnOf(Len(Messages)))

InitSession ==
    /\ ss_sessions = << >>
    /\ ss_history \in {<< >>, <<OtherSessionRow>>}
    /\ ss_p = [p \in Procs |-> IdleProc]
    /\ ss_hist = [sid \in Sessions |-> [turns |-> <<>>, updates |-> 0, insertFailed |-> FALSE]]
    /\ ss_started = 0
    /\ rl_limit = 1
    /\ RateIdle
    /\ AuthIdle
    /\ AgentIdle
    /\ RestIdle

SessFrame == UNCHANGED <<rateVars, authVars, agentVars, restVars>>

NextSession ==
    \/ \E p \in Procs, op \in {"create_fetch", "add_event", "history_route"},
         sid \in Sessions, uid \in Users, ev \in Turns \cup {<<>>} :
           SSStart(p, op, sid, uid, ev) /\ SessFrame
    \/ \E p \in Procs, ok \in BOOLEAN : SSCreate(p, ok) /\ SessFrame
    \/ \E p \in Procs, ok \in BOOLEAN : SSFetch(p, ok) /\ SessFrame
    \/ \E p \in Procs, ok \in BOOLEAN : SSAddGet(p, ok) /\ SessFrame
    \/ \E p \in Procs, ok \in BOOLEAN : SSAddUpdate(p, ok) /\ SessFrame
    \/ \E p \in Procs, ok \in BOOLEAN : SSAddInsert(p, ok) /\ SessFrame
    \/ \E p \in Procs, ok \in BOOLEAN : SSRouteCheck(p, ok) /\ SessFrame
    \/ \E p \in Procs, ok \in BOOLEAN : SSRouteHistory(p, ok) /\ SessFrame
    \/ \E p \in Procs : SSFinish(p) /\ SessFrame

SpecSession == InitSession /\ [][NextSession]_vars

(***************************************************************************)
(* Claims about sessions                                                   *)
(***************************************************************************)

\* The turns of the history rows of a session, oldest first.
RECURSIVE HistoryTurns(_, _)
HistoryTurns(history, session_id) ==
    IF history = <<>> THEN <<>>
    ELSE LET row == history[1]
             rest == HistoryTurns(Tail(history), session_id)
         IN  IF row.session_id = session_id
             THEN <<[user_message |-> row.user_message, agent_response |-> row.agent_response,
                     agent_name |-> row.agent_name, metadata |-> row.metadata]>> \o rest
             ELSE rest

SeqRange(seq) == { seq[i] : i \in 1..Len(seq) }

AddEventInProgress(session_id) ==
    \E p \in Procs : ss_p[p].op = "add_event" /\ ss_p[p].sid = session_id
                     /\ ss_p[p].pc \in {"get", "update", "insert_history"}

\* C3: a caller whose user_id differs from the owner of the session at the time
\* of the route's lookup is answered 403 and is never handed the history,
\* whether or not the lookup succeeded.
C3_SessionReadIsolation ==
    \A p \in Procs :
        (/\ ss_p[p].op = "history_route"
         /\ ss_p[p].pc \in {"history", "done"}
         /\ ss_p[p].owner # <<>>
         /\ ss_p[p].owner[1] # ss_p[p].uid)
        => (ss_p[p].pc = "done" /\ ss_p[p].status = "403" /\ ss_p[p].res = <<>>)

\* C8: a get_session that follows a successful create_session of S, with no
\* add_event write in between, yields the record of S with no events; a history
\* query that answers after exactly one add_event on S has returned True yields
\* exactly one entry, with the four fields of the appended event.
C8_CreateFetchAndOneEvent ==
    \A p \in Procs :
        /\ (ss_p[p].op = "create_fetch" /\ ss_p[p].pc = "done"
            /\ ss_p[p].status = "fetched" /\ ss_p[p].n = 0)
           => /\ Len(ss_p[p].res) = 1
              /\ ss_p[p].res[1].session_id = ss_p[p].sid
              /\ ss_p[p].res[1].events = <<>>
        /\ (ss_p[p].op = "history_route" /\ ss_p[p].pc = "done"
            /\ ss_p[p].status = "200" /\ Len(ss_p[p].events) = 1)
           => /\ Len(ss_p[p].res) = 1
              /\ ss_p[p].res[1].session_id = ss_p[p].sid
              /\ ss_p[p].res[1].user_message = ss_p[p].events[1].user_message
              /\ ss_p[p].res[1].agent_response = ss_p[p].events[1].agent_response
              /\ ss_p[p].res[1].agent_name = ss_p[p].events[1].agent_name
              /\ ss_p[p].res[1].metadata = ss_p[p].events[1].metadata

\* Both halves of C8 have happened: a created session was fetched, and the
\* history of a session with one recorded turn was read while the table also
\* holds a row of another session.
C8_Witness ==
    /\ \E p \in Procs : ss_p[p].op = "create_fetch" /\ ss_p[p].pc = "done"
                        /\ ss_p[p].status = "fetched" /\ ss_p[p].n = 0
    /\ \E p \in Procs : ss_p[p].op = "history_route" /\ ss_p[p].pc = "done"
                        /\ ss_p[p].status = "200" /\ Len(ss_p[p].events) = 1
                        /\ Len(ss_history) > 1

\* C9: whenever no add_event is in progress on a session and no session_history
\* insert for it has failed, its embedded events list and its session_history
\* rows hold the same turns.
C9_LockStep ==
    \A sid \in DOMAIN ss_sessions :
        (~AddEventInProgress(sid) /\ ~ss_hist[sid].insertFailed)
        => /\ SeqRange(ss_sessions[sid].events) = SeqRange(HistoryTurns(ss_history, sid))
           /\ Len(ss_sessions[sid].events) = Len(HistoryTurns(ss_history, sid))

\* C31: add_event on a session id that does not exist returns False without
\* raising and writes nothing: the step add_event takes when its lookup finds
\* no session ends the call with False and leaves the sessions and the
\* history as they were.
C31_AddEventUnknownSession ==
    [][\A p \in Procs :
          (/\ ss_p[p].op = "add_event" /\ ss_p[p].pc = "get"
           /\ ss_p[p].sid \notin DOMAIN ss_sessions
           /\ ss_p'[p] # ss_p[p])
          => /\ ss_p'[p].pc = "done"
             /\ ss_p'[p].status = "false"
             /\ ss_sessions' = ss_sessions
             /\ ss_history' = ss_history]_vars

\* add_event has returned False for a session that does not exist, while the
\* history table holds a row of another session.
C31_Witness ==
    /\ ss_sessions = << >>
    /\ ss_history = <<OtherSessionRow>>
    /\ \E p \in Procs : ss_p[p].op = "add_event" /\ ss_p[p].pc = "done"
                         /\ ss_p[p].status = "false" /\ ss_p[p].events = <<>>

-----------------------------------------------------------------------------
(***************************************************************************)
(* BaseADKAgent.execute                                                    *)
(*                                                                         *)
(* @retry(stop=stop_after_attempt(3), wait=wait_exponential(...)) wraps    *)
(* the whole coroutine: tenacity calls it, and on any exception either     *)
(* sleeps and calls it again or gives up by raising RetryError, which      *)
(* carries the last attempt's exception (reraise is not set).              *)
(***************************************************************************)

MaxCalls == 2        \* execute calls made in one run

MAX_ATTEMPTS == 3    \* stop_after_attempt(3)

AGENT_NAME == "infrastructure_monitor"
DEFAULT_USER == "default-user"

\* What the runtime answers on its n-th invocation within a call.
Responses == <<"r1", "r2", "r3", "r4">>

\* How callers pass their arguments: execute(message) and
\* execute(message, session_id=...) bind to the signature; the routes and the
\* worker also pass user_id=..., which the signature does not accept.
CallKinds == {"positional", "with_user_id"}

\* Mutant of stop_after_attempt: gives up one attempt late.
stop_after_attempt_late(attempt_number) == attempt_number > MAX_ATTEMPTS

\* tenacity.stop_after_attempt(MAX_ATTEMPTS).__call__
stop_after_attempt(attempt_number) == attempt_number >= MAX_ATTEMPTS

\* The event execute hands to add_event.
AgentEvent(user_message, response_text) ==
    [user_message |-> user_message, agent_response |-> response_text,
     agent_name |-> AGENT_NAME, metadata |-> "{}"]

AttemptFailed(outcome) ==
    /\ ag_log' = Append(ag_log, outcome)
    /\ ag_pc' = "failed"

\* A caller awaits agent.execute(...).
AgCall(kind, user_message, session_id) ==
    /\ ag_pc = "idle"
    /\ ag_calls < MaxCalls
    /\ ag_calls' = ag_calls + 1
    /\ ag_call' = [kind |-> kind, user_message |-> user_message, session_id |-> session_id]
    /\ ag_attempt' = 1
    /\ ag_runs' = 0
    /\ ag_log' = << >>
    /\ ag_text' = << >>
    /\ ag_result' = << >>
    /\ ag_pc' = "bind"
    /\ UNCHANGED <<ss_sessions, ss_history, ss_hist>>

\* tenacity calls fn(*args, **kwargs): an unexpected keyword argument is a
\* TypeError raised inside the retry loop, before the body runs.
AgBind ==
    /\ ag_pc = "bind"
    /\ IF ag_call.kind = "with_user_id"
       THEN AttemptFailed("TypeError")
       ELSE ag_pc' = "session" /\ UNCHANGED ag_log
    /\ UNCHANGED <<ag_call, ag_attempt, ag_runs, ag_text, ag_result, ag_calls,
                   ss_sessions, ss_history, ss_hist>>

\* Lines 84-92: retrieve or create the session; create_session raises on failure.
AgSession(okGet, okCreate) ==
    /\ ag_pc = "session"
    /\ IF ag_call.session_id = <<>>
       THEN ag_pc' = "run" /\ UNCHANGED <<ag_log, ss_sessions>>
       ELSE LET sid == ag_call.session_id[1]
            IN  IF get_session(ss_sessions, sid, okGet) # <<>>
                THEN ag_pc' = "run" /\ UNCHANGED <<ag_log, ss_sessions>>
                ELSE IF okCreate /\ InsertAllowed(ss_sessions, sid)
                     THEN /\ ss_sessions' = PutSession(ss_sessions, sid, NewSession(sid, DEFAULT_USER))
                          /\ ag_pc' = "run"
                          /\ UNCHANGED ag_log
                     ELSE AttemptFailed("create_session") /\ UNCHANGED ss_sessions
    /\ UNCHANGED <<ag_call, ag_attempt, ag_runs, ag_text, ag_result, ag_calls,
                   ss_history, ss_hist>>

\* Lines 100-107: self.agent.run(user_message) answers or raises.
AgRun(ok) ==
    /\ ag_pc = "run"
    /\ ag_runs' = ag_runs + 1
    /\ IF ok
       THEN /\ ag_text' = <<Responses[ag_runs + 1]>>
            /\ ag_pc' = "save"
            /\ UNCHANGED ag_log
       ELSE AttemptFailed("agent.run") /\ UNCHANGED ag_text
    /\ UNCHANGED <<ag_call, ag_attempt, ag_result, ag_calls,
                   ss_sessions, ss_history, ss_hist>>

\* Lines 109-139: add_event (which reports failure by returning False), the
\* trace calls, return response_text. A trace call that raises fails the
\* attempt after the turn was saved; otherwise tenacity hands the value back.
AgSave(okGet, okUpdate, okInsert, okTrace) ==
    /\ ag_pc = "save"
    /\ IF ag_call.session_id = <<>>
       THEN UNCHANGED <<ss_sessions, ss_history, ss_hist>>
       ELSE LET sid == ag_call.session_id[1]
                event == AgentEvent(ag_call.user_message, ag_text[1])
                updated == get_session(ss_sessions, sid, okGet) # <<>> /\ okUpdate
                inserted == updated /\ okInsert
            IN  /\ ss_sessions' = IF updated
                                  THEN [ss_sessions EXCEPT ![sid].events = Append(@, event)]
                                  ELSE ss_sessions
                /\ ss_history' = IF inserted
                                 THEN Append(ss_history, HistoryRow(sid, event))
                                 ELSE ss_history
                /\ ss_hist' = IF sid \in Sessions
                              THEN [ss_hist EXCEPT
                                      ![sid].updates = IF updated THEN @ + 1 ELSE @,
                                      ![sid].turns = IF inserted THEN Append(@, event) ELSE @,
                                      ![sid].insertFailed = @ \/ (updated /\ ~okInsert)]
                              ELSE ss_hist
    /\ IF okTrace
       THEN /\ ag_log' = Append(ag_log, "ok")
            /\ ag_result' = [kind |-> "value", value |-> ag_text[1]]
            /\ ag_pc' = "returned"
       ELSE AttemptFailed("trace") /\ UNCHANGED ag_result
    /\ UNCHANGED <<ag_call, ag_attempt, ag_runs, ag_text, ag_calls>>

\* tenacity after a failed attempt: give up with RetryError(last attempt) or sleep.
AgRetry ==
    /\ ag_pc = "failed"
    /\ IF stop_after_attempt(ag_attempt)
       THEN /\ ag_pc' = "raised"
            /\ ag_result' = [kind |-> "RetryError", value |-> ag_log[Len(ag_log)]]
       ELSE /\ ag_pc' = "wait"
            /\ UNCHANGED ag_result
    /\ UNCHANGED <<ag_call, ag_attempt, ag_runs, ag_log, ag_text, ag_calls,
                   ss_sessions, ss_history, ss_hist>>

\* The backoff sleep is over: the next attempt starts.
AgWait ==
    /\ ag_pc = "wait"
    /\ ag_attempt' = ag_attempt + 1
    /\ ag_text' = << >>
    /\ ag_pc' = "bind"
    /\ UNCHANGED <<ag_call, ag_runs, ag_log, ag_result, ag_calls,
                   ss_sessions, ss_history, ss_hist>>

\* The caller has its answer.
AgDone ==
    /\ ag_pc \in {"returned", "raised"}
    /\ ag_pc' = "idle"
    /\ ag_call' = NoCall
    /\ ag_attempt' = 0
    /\ ag_runs' = 0
    /\ ag_log' = << >>
    /\ ag_text' = << >>
    /\ ag_result' = << >>
    /\ UNCHANGED <<ag_calls, ss_sessions, ss_history, ss_hist>>

InitAgent ==
    /\ AgentIdle
    /\ SessIdle
    /\ rl_limit = 1
    /\ RateIdle
    /\ AuthIdle
    /\ RestIdle

AgentFrame == UNCHANGED <<rateVars, authVars, ss_p, ss_started, restVars>>

AgentSteps ==
    \/ AgBind /\ AgentFrame
    \/ \E okGet, okCreate \in BOOLEAN : AgSession(okGet, okCreate) /\ AgentFrame
    \/ \E ok \in BOOLEAN : AgRun(ok) /\ AgentFrame
    \/ \E okGet, okUpdate, okInsert, okTrace \in BOOLEAN :
           AgSave(okGet, okUpdate, okInsert, okTrace) /\ AgentFrame
    \/ AgRetry /\ AgentFrame
    \/ AgWait /\ AgentFrame
    \/ AgDone /\ AgentFrame

NextAgent ==
    \/ \E kind \in CallKinds, session_id \in {<<>>, <<"s1">>} :
           AgCall(kind, Messages[ag_calls + 1], session_id) /\ AgentFrame
    \/ AgentSteps

SpecAgent == InitAgent /\ [][NextAgent]_vars

\* The event loop keeps running the coroutine and every sleep ends.
SpecAgentLive == SpecAgent /\ WF_vars(AgentSteps)

(***************************************************************************)
(* Claims about the base agent                                             *)
(***************************************************************************)

AgSucceeded(i) == ag_log[i] = "ok"

\* C10: one execute call invokes the runtime at most MAX_ATTEMPTS times and makes
\* at most MAX_ATTEMPTS attempts; no attempt follows one that succeeded; a call
\* that returns hands back the response text of its successful attempt; a call
\* ends by raising exactly when MAX_ATTEMPTS attempts failed, and the exception
\* carries the last failure.
C10_RetryInvariant ==
    /\ ag_runs <= MAX_ATTEMPTS
    /\ ag_attempt <= MAX_ATTEMPTS
    /\ Len(ag_log) <= MAX_ATTEMPTS
    /\ ag_runs <= ag_attempt
    /\ \A i \in 1..Len(ag_log) : AgSucceeded(i) => i = Len(ag_log)
    /\ ag_pc = "returned"
         => /\ ag_log # <<>> /\ AgSucceeded(Len(ag_log))
            /\ ag_result = [kind |-> "value", value |-> Responses[ag_runs]]
    /\ ag_pc = "raised"
         => /\ Len(ag_log) = MAX_ATTEMPTS
            /\ \A i \in 1..Len(ag_log) : ~AgSucceeded(i)
            /\ ag_result = [kind |-> "RetryError", value |-> ag_log[MAX_ATTEMPTS]]

-----------------------------------------------------------------------------
(***************************************************************************)
(* TaskService.enqueue_task and the task registry                          *)
(***************************************************************************)

MaxJobs == 2         \* jobs submitted by direct enqueue_task calls in one run

JobIds == <<"j1", "j2", "j3", "j4", "j5", "j6">>

\* app.tasks.get_task_function: task_map
task_map == {"execute_agent_task", "process_long_running_agent_task"}

\* Mutant of get_task_function: every name resolves.
get_task_function_any(task_name) == <<task_name>>

\* app.tasks.get_task_function: task_map.get(task_name), None (<<>>) for other names
get_task_function(task_name) ==
    IF task_name \in task_map THEN <<task_name>> ELSE <<>>

NewJob(jobs, func, kwargs) ==
    [id |-> JobIds[Len(jobs) + 1], func |-> func, kwargs |-> kwargs,
     status |-> "queued", result |-> <<>>, log |-> {}]

\* self.queue.enqueue(task_func, **kwargs, ...): the job is written to the broker
\* and handed back, or the call raises and nothing is written.
queue_enqueue(jobs, func, kwargs, broker_ok) ==
    IF broker_ok
    THEN [raised |-> FALSE, job |-> <<NewJob(jobs, func, kwargs)>>,
          jobs |-> Append(jobs, NewJob(jobs, func, kwargs))]
    ELSE [raised |-> TRUE, job |-> <<>>, jobs |-> jobs]

\* TaskService.enqueue_task: what it returns, whether it raised, the jobs afterwards.
enqueue_task(enabled, jobs, task_name, kwargs, broker_ok) ==
    IF ~enabled
    THEN [returned |-> <<>>, raised |-> FALSE, jobs |-> jobs]
    ELSE LET task_func == get_task_function(task_name)
         IN  IF task_func = <<>>
             THEN [returned |-> <<>>, raised |-> FALSE, jobs |-> jobs]
             ELSE LET r == queue_enqueue(jobs, task_func[1], kwargs, broker_ok)
                  IN  IF r.raised
                      THEN [returned |-> <<>>, raised |-> FALSE, jobs |-> r.jobs]
                      ELSE [returned |-> <<r.job[1].id>>, raised |-> FALSE, jobs |-> r.jobs]

\* The record kept of an enqueue_task call.
EnqueueRecord(task_name, kwargs, broker_ok, r) ==
    [task_name |-> task_name, kwargs |-> kwargs, returned |-> r.returned,
     raised |-> r.raised, submitted |-> Len(r.jobs) - Len(tq_jobs), broker_ok |-> broker_ok]

TaskKwargs(agent_name, message, session_id, user_id) ==
    [agent_name |-> agent_name, message |-> message, session_id |-> session_id,
     user_id |-> user_id]

-----------------------------------------------------------------------------
(***************************************************************************)
(* POST /api/chat/ and POST /api/chat/async                                *)
(***************************************************************************)

MaxChats == 2        \* chat requests served in one run

\* str(uuid.uuid4()) of the n-th request
Uuids == <<"g1", "g2", "g3", "g4">>

INFRASTRUCTURE_MONITOR == "infrastructure_monitor"

ChatAgentNames == {<<>>, <<INFRASTRUCTURE_MONITOR>>, <<"code_reviewer">>}
ChatUsers == {<<>>, <<"A">>, <<"B">>}

\* x or default
OrElse(x, default) == IF x = <<>> THEN default ELSE x[1]

\* user.user_id if user else "anonymous"
ChatUserId(user) == OrElse(user, "anonymous")

\* f"Echo: {request.message}"
Echo(message) == "Echo: " \o message

ChatEvent(req, response_text) ==
    [user_message |-> req.message, agent_response |-> response_text,
     agent_name |-> OrElse(req.agent_name, "default"), metadata |-> "{}"]

\* ChatResponse(response, session_id, agent_name)
ChatResponse(req, session_id, response_text) ==
    [status |-> HTTP_OK,
     body |-> <<[response |-> response_text, session_id |-> session_id,
                 agent_name |-> OrElse(req.agent_name, "default")]>>]

\* An exception that leaves the route: general_exception_handler answers 500.
ChatError == [status |-> HTTP_SERVER_ERROR, body |-> <<>>]

HTTP_UNAVAILABLE == 503

\* Mutant of chat_async_response: answers queued whatever enqueue_task returned.
chat_async_response_always(task_id, session_id) ==
    [status |-> HTTP_OK,
     body |-> <<[task_id |-> OrElse(task_id, ""), session_id |-> session_id,
                 status |-> "queued"]>>]

\* chat_async, lines 112-123: 503 when there is no task id
chat_async_response(task_id, session_id) ==
    IF task_id = <<>>
    THEN [status |-> HTTP_UNAVAILABLE, body |-> <<>>]
    ELSE [status |-> HTTP_OK,
          body |-> <<[task_id |-> task_id[1], session_id |-> session_id,
                      status |-> "queued"]>>]

\* A request arrives; session_id = request.session_id or str(uuid.uuid4()).
ChatRequest(route, session_id, agent_name, user) ==
    /\ ch_pc = "idle"
    /\ ch_count < MaxChats
    /\ route \in {"chat", "chat_async"}
    /\ ch_count' = ch_count + 1
    /\ ch_req' = [route |-> route, message |-> Messages[ch_count + 1],
                  session_id |-> session_id, agent_name |-> agent_name, user |-> user]
    /\ ch_sid' = OrElse(session_id, Uuids[ch_count + 1])
    /\ ch_text' = << >>
    /\ ch_resp' = NoResponse
    /\ ch_log' = {}
    /\ ch_pc' = "get"
    /\ UNCHANGED <<ss_sessions, ss_history, ss_hist, agentVars, queueVars>>

\* session = await session_service.get_session(session_id)
ChatGetSession(ok) ==
    /\ ch_pc = "get"
    /\ ch_pc' = IF get_session(ss_sessions, ch_sid, ok) = <<>> THEN "create"
                ELSE IF ch_req.route = "chat" THEN "route" ELSE "enqueue"
    /\ ch_log' = IF ok THEN ch_log ELSE ch_log \cup {"store"}
    /\ UNCHANGED <<ch_req, ch_sid, ch_text, ch_resp, ch_count,
                   ss_sessions, ss_history, ss_hist, agentVars, queueVars>>

\* create_session(session_id, user_id, tenant_id): raises when the insert fails.
ChatCreateSession(ok) ==
    /\ ch_pc = "create"
    /\ IF ok /\ InsertAllowed(ss_sessions, ch_sid)
       THEN /\ ss_sessions' = PutSession(ss_sessions, ch_sid,
                                         NewSession(ch_sid, ChatUserId(ch_req.user)))
            /\ ch_pc' = IF ch_req.route = "chat" THEN "route" ELSE "enqueue"
            /\ UNCHANGED <<ch_resp, ch_log>>
       ELSE /\ ch_resp' = ChatError
            /\ ch_log' = ch_log \cup {"create_session"}
            /\ ch_pc' = "done"
            /\ UNCHANGED ss_sessions
    /\ UNCHANGED <<ch_req, ch_sid, ch_text, ch_count,
                   ss_history, ss_hist, agentVars, queueVars>>

\* chat, lines 52-60: the monitor agent is executed, any other name is echoed.
ChatRoute ==
    /\ ch_pc = "route"
    /\ IF OrElse(ch_req.agent_name, INFRASTRUCTURE_MONITOR) = INFRASTRUCTURE_MONITOR
       THEN /\ AgCall("with_user_id", ch_req.message, <<ch_sid>>)
            /\ ch_pc' = "executing"
            /\ UNCHANGED ch_text
       ELSE /\ ch_text' = <<Echo(ch_req.message)>>
            /\ ch_pc' = "save"
            /\ UNCHANGED <<ss_sessions, ss_history, ss_hist, agentVars>>
    /\ UNCHANGED <<ch_req, ch_sid, ch_resp, ch_log, ch_count, queueVars>>

\* await agent.execute(...) is over: its value is the response text, its
\* exception leaves the route.
ChatExecuted ==
    /\ ch_pc = "executing"
    /\ AgDone
    /\ ch_log' = ch_log \cup SeqRange(ag_log)
    /\ IF ag_pc = "returned"
       THEN /\ ch_text' = <<ag_result.value>>
            /\ ch_pc' = "save"
            /\ UNCHANGED ch_resp
       ELSE /\ ch_resp' = ChatError
            /\ ch_pc' = "done"
            /\ UNCHANGED ch_text
    /\ UNCHANGED <<ch_req, ch_sid, ch_count, queueVars>>

\* chat, lines 62-77: add_event (its result is not looked at), then the response.
ChatSave(okGet, okUpdate, okInsert) ==
    /\ ch_pc = "save"
    /\ LET event == ChatEvent(ch_req, ch_text[1])
           updated == get_session(ss_sessions, ch_sid, okGet) # <<>> /\ okUpdate
           inserted == updated /\ okInsert
       IN  /\ ss_sessions' = IF updated
                             THEN [ss_sessions EXCEPT ![ch_sid].events = Append(@, event)]
                             ELSE ss_sessions
           /\ ss_history' = IF inserted
                            THEN Append(ss_history, HistoryRow(ch_sid, event))
                            ELSE ss_history
           /\ ss_hist' = IF ch_sid \in Sessions
                         THEN [ss_hist EXCEPT
                                 ![ch_sid].updates = IF updated THEN @ + 1 ELSE @,
                                 ![ch_sid].turns = IF inserted THEN Append(@, event) ELSE @,
                                 ![ch_sid].insertFailed = @ \/ (updated /\ ~okInsert)]
                         ELSE ss_hist
           /\ ch_log' = IF inserted THEN ch_log ELSE ch_log \cup {"store"}
    /\ ch_resp' = ChatResponse(ch_req, ch_sid, ch_text[1])
    /\ ch_pc' = "done"
    /\ UNCHANGED <<ch_req, ch_sid, ch_text, ch_count, agentVars, queueVars>>

\* chat_async, lines 102-123: enqueue execute_agent_task, answer queued or 503.
ChatEnqueue(broker_ok) ==
    /\ ch_pc = "enqueue"
    /\ LET kwargs == TaskKwargs(OrElse(ch_req.agent_name, INFRASTRUCTURE_MONITOR),
                                ch_req.message, ch_sid, ChatUserId(ch_req.user))
           r == enqueue_task(tq_enabled, tq_jobs, "execute_agent_task", kwargs, broker_ok)
       IN  /\ tq_jobs' = r.jobs
           /\ tq_call' = EnqueueRecord("execute_agent_task", kwargs, broker_ok, r)
           /\ ch_resp' = chat_async_response(r.returned, ch_sid)
    /\ ch_pc' = "done"
    /\ UNCHANGED <<ch_req, ch_sid, ch_text, ch_log, ch_count, tq_enabled, tq_worker,
                   ss_sessions, ss_history, ss_hist, agentVars>>

\* The response has been sent.
ChatFinish ==
    /\ ch_pc = "done"
    /\ ch_pc' = "idle"
    /\ UNCHANGED <<ch_req, ch_sid, ch_text, ch_resp, ch_log, ch_count,
                   ss_sessions, ss_history, ss_hist, agentVars, queueVars>>

InitChat ==
    /\ ChatIdle
    /\ IoIdle
    /\ tq_enabled \in BOOLEAN
    /\ QueueIdle
    /\ AgentIdle
    /\ SessIdle
    /\ rl_limit = 1
    /\ RateIdle
    /\ AuthIdle

ChatFrame == UNCHANGED <<rateVars, authVars, ss_p, ss_started, ioVars>>

\* The steps of execute while the route awaits it.
ChatAgentFrame == UNCHANGED <<rateVars, authVars, ss_p, ss_started, chatVars, queueVars, ioVars>>

\* execute is also called outside the routes (the evaluator calls
\* agent.execute(question)); here it does so before the requests arrive, and
\* requests arrive when it is done.
OtherCaller == ch_pc = "idle" /\ ch_count = 0

NextChat ==
    \/ \E route \in {"chat", "chat_async"}, session_id \in {<<>>, <<"s1">>},
          agent_name \in ChatAgentNames, user \in ChatUsers :
           ag_pc = "idle" /\ ChatRequest(route, session_id, agent_name, user) /\ ChatFrame
    \/ \E ok \in BOOLEAN : ChatGetSession(ok) /\ ChatFrame
    \/ \E ok \in BOOLEAN : ChatCreateSession(ok) /\ ChatFrame
    \/ ChatRoute /\ ChatFrame
    \/ OtherCaller /\ AgCall("positional", Messages[ag_calls + 1], <<>>) /\ ChatAgentFrame
    \/ OtherCaller /\ AgDone /\ ChatAgentFrame
    \/ AgBind /\ ChatAgentFrame
    \/ \E okGet, okCreate \in BOOLEAN : AgSession(okGet, okCreate) /\ ChatAgentFrame
    \/ \E ok \in BOOLEAN : AgRun(ok) /\ ChatAgentFrame
    \/ \E okGet, okUpdate, okInsert, okTrace \in BOOLEAN :
           AgSave(okGet, okUpdate, okInsert, okTrace) /\ ChatAgentFrame
    \/ AgRetry /\ ChatAgentFrame
    \/ AgWait /\ ChatAgentFrame
    \/ ChatExecuted /\ ChatFrame
    \/ \E okGet, okUpdate, okInsert \in BOOLEAN : ChatSave(okGet, okUpdate, okInsert) /\ ChatFrame
    \/ \E broker_ok \in BOOLEAN : ChatEnqueue(broker_ok) /\ ChatFrame
    \/ ChatFinish /\ ChatFrame

SpecChat == InitChat /\ [][NextChat]_vars

(***************************************************************************)
(* Claims about the chat routes                                            *)
(***************************************************************************)

ForMonitor(req) == OrElse(req.agent_name, INFRASTRUCTURE_MONITOR) = INFRASTRUCTURE_MONITOR

ChatServed(route) == ch_pc = "done" /\ ch_req.route = route

\* The turn of the request is among the session_history rows of its session.
TurnRecorded ==
    \E i \in 1..Len(ss_history) :
        /\ ss_history[i].session_id = ch_sid
        /\ ss_history[i].user_message = ch_req.message
        /\ ss_history[i].agent_response = ch_resp.body[1].response

\* C11 (second part): a request naming another agent is answered 200 with
\* "Echo: <message>", unless the session it needs could not be created.
C11_EchoAnswers ==
    (ChatServed("chat") /\ ~ForMonitor(ch_req) /\ "create_session" \notin ch_log)
    => /\ ch_resp.status = HTTP_OK
       /\ ch_resp.body[1].response = Echo(ch_req.message)

\* C11: a chat request for the monitor agent (named or by default), served
\* while no store call, no runtime invocation and no trace call fails, is
\* answered 200 with {response, session_id, agent_name} and its turn is in the
\* session's history; a request for any other agent is answered with the echo.
C11_ChatAnswers ==
    /\ (ChatServed("chat") /\ ForMonitor(ch_req)
        /\ ch_log \cap {"store", "create_session", "agent.run", "trace"} = {})
       => /\ ch_resp.status = HTTP_OK
          /\ ch_resp.body # <<>>
          /\ ch_resp.body[1].session_id = ch_sid
          /\ TurnRecorded
    /\ C11_EchoAnswers

\* The jobs in the broker that were submitted for the request being served.
JobsOfRequest ==
    { i \in 1..Len(tq_jobs) : /\ tq_jobs[i].kwargs.message = ch_req.message
                              /\ tq_jobs[i].kwargs.session_id = ch_sid }

\* The request got as far as enqueue_task.
AsyncAnswered == ChatServed("chat_async") /\ ch_resp.status # HTTP_SERVER_ERROR

\* C12: chat_async answers {task_id, session_id, status: queued} only when exactly
\* one job was submitted for the request and task_id is that job's id; when the
\* queue is disabled or the submission raised it answers 503 and the broker
\* holds no job for the request.
C12_AsyncQueuedOnlyIfSubmitted ==
    /\ (AsyncAnswered /\ ch_resp.status = HTTP_OK)
       => /\ ch_resp.body[1].status = "queued"
          /\ ch_resp.body[1].session_id = ch_sid
          /\ tq_call.submitted = 1
          /\ \E i \in JobsOfRequest :
                /\ JobsOfRequest = {i}
                /\ tq_jobs[i].id = ch_resp.body[1].task_id
                /\ tq_jobs[i].func = "execute_agent_task"
    /\ (AsyncAnswered /\ (~tq_enabled \/ ~tq_call.broker_ok))
       => /\ ch_resp.status = HTTP_UNAVAILABLE
          /\ ch_resp.body = <<>>
          /\ JobsOfRequest = {}
    /\ AsyncAnswered => ch_resp.status \in {HTTP_OK, HTTP_UNAVAILABLE}

\* A request was answered 503 because its submission raised, after an earlier
\* request had been queued.
C12_Witness ==
    /\ AsyncAnswered
    /\ tq_enabled /\ ~tq_call.broker_ok
    /\ ch_resp.status = HTTP_UNAVAILABLE
    /\ Len(tq_jobs) = 1

-----------------------------------------------------------------------------
(***************************************************************************)
(* The RQ worker and the task functions                                    *)
(*                                                                         *)
(* A worker process takes the oldest queued job and calls its function     *)
(* with the job's keyword arguments; the job ends finished with the value  *)
(* the function returned, or failed when it raised.                        *)
(***************************************************************************)

TaskNames == {"execute_agent_task", "process_long_running_agent_task", "send_report"}
TaskAgentNames == {INFRASTRUCTURE_MONITOR, "code_reviewer"}

Queued == { i \in 1..Len(tq_jobs) : tq_jobs[i].status = "queued" }

\* The value a task function returns, lines 49-54.
TaskResult(kwargs, response) ==
    [status |-> "completed", agent |-> kwargs.agent_name, response |-> response,
     session_id |-> kwargs.session_id]

\* A caller (a route, a script) calls task_service.enqueue_task.
TQEnqueue(task_name, agent_name, broker_ok) ==
    /\ Len(tq_jobs) < MaxJobs
    /\ LET kwargs == TaskKwargs(agent_name, Messages[Len(tq_jobs) + 1], "s1", "A")
           r == enqueue_task(tq_enabled, tq_jobs, task_name, kwargs, broker_ok)
       IN  /\ tq_jobs' = r.jobs
           /\ tq_call' = EnqueueRecord(task_name, kwargs, broker_ok, r)
    /\ UNCHANGED <<tq_enabled, tq_worker, ss_sessions, ss_history, ss_hist, agentVars>>

\* The worker takes the oldest queued job.
WorkerTake ==
    /\ tq_worker.pc = "idle"
    /\ ag_pc = "idle"
    /\ Queued # {}
    /\ LET i == CHOOSE j \in Queued : \A k \in Queued : j <= k
       IN  /\ tq_jobs' = [tq_jobs EXCEPT ![i].status = "started"]
           /\ tq_worker' = [pc |-> "dispatch", job |-> i]
    /\ UNCHANGED <<tq_enabled, tq_call, ss_sessions, ss_history, ss_hist, agentVars>>

\* execute_agent_task / process_long_running_agent_task up to the call of
\* execute: the monitor agent is executed, any other name is a ValueError.
WorkerDispatch ==
    /\ tq_worker.pc = "dispatch"
    /\ LET job == tq_jobs[tq_worker.job]
       IN  IF job.kwargs.agent_name = INFRASTRUCTURE_MONITOR
           THEN /\ AgCall("with_user_id", job.kwargs.message, <<job.kwargs.session_id>>)
                /\ tq_worker' = [tq_worker EXCEPT !.pc = "executing"]
                /\ UNCHANGED tq_jobs
           ELSE /\ tq_jobs' = [tq_jobs EXCEPT ![tq_worker.job] =
                                  [@ EXCEPT !.status = "failed", !.log = {"ValueError"}]]
                /\ tq_worker' = IdleWorker
                /\ UNCHANGED <<ss_sessions, ss_history, ss_hist, agentVars>>
    /\ UNCHANGED <<tq_enabled, tq_call>>

\* loop.run_until_complete(agent.execute(...)) is over: the function returns
\* its result, or the exception is logged and re-raised and the job fails.
WorkerExecuted ==
    /\ tq_worker.pc = "executing"
    /\ AgDone
    /\ tq_jobs' = [tq_jobs EXCEPT ![tq_worker.job] =
           IF ag_pc = "returned"
           THEN [@ EXCEPT !.status = "finished",
                          !.result = <<TaskResult(@.kwargs, ag_result.value)>>,
                          !.log = SeqRange(ag_log)]
           ELSE [@ EXCEPT !.status = "failed", !.log = SeqRange(ag_log)]]
    /\ tq_worker' = IdleWorker
    /\ UNCHANGED <<tq_enabled, tq_call>>

InitWorker ==
    /\ IoIdle
    /\ tq_enabled \in BOOLEAN
    /\ QueueIdle
    /\ ChatIdle
    /\ AgentIdle
    /\ SessIdle
    /\ rl_limit = 1
    /\ RateIdle
    /\ AuthIdle

WorkerFrame == UNCHANGED <<rateVars, authVars, ss_p, ss_started, chatVars, ioVars>>

WorkerAgentFrame == UNCHANGED <<rateVars, authVars, ss_p, ss_started, chatVars, queueVars, ioVars>>

\* execute called with a question only (the evaluator), before any job is submitted.
BeforeJobs == tq_worker.pc = "idle" /\ tq_jobs = << >>

NextWorker ==
    \/ \E task_name \in TaskNames, agent_name \in TaskAgentNames, broker_ok \in BOOLEAN :
           ag_pc = "idle" /\ TQEnqueue(task_name, agent_name, broker_ok) /\ WorkerFrame
    \/ WorkerTake /\ WorkerFrame
    \/ WorkerDispatch /\ WorkerFrame
    \/ BeforeJobs /\ AgCall("positional", Messages[ag_calls + 1], <<>>) /\ WorkerAgentFrame
    \/ BeforeJobs /\ AgDone /\ WorkerAgentFrame
    \/ AgBind /\ WorkerAgentFrame
    \/ \E okGet, okCreate \in BOOLEAN : AgSession(okGet, okCreate) /\ WorkerAgentFrame
    \/ \E ok \in BOOLEAN : AgRun(ok) /\ WorkerAgentFrame
    \/ \E okGet, okUpdate, okInsert, okTrace \in BOOLEAN :
           AgSave(okGet, okUpdate, okInsert, okTrace) /\ WorkerAgentFrame
    \/ AgRetry /\ WorkerAgentFrame
    \/ AgWait /\ WorkerAgentFrame
    \/ WorkerExecuted /\ WorkerFrame

SpecWorker == InitWorker /\ [][NextWorker]_vars

(***************************************************************************)
(* Claims about the queue and the worker                                   *)
(***************************************************************************)

JobOver(i) == tq_jobs[i].status \in {"finished", "failed"}

\* C13: a job of execute_agent_task for infrastructure_monitor during which no
\* runtime invocation, no session creation and no trace call failed ends
\* finished with {status: completed, agent, response, session_id}; a job ends
\* failed only when the agent name is unknown or the agent's execution failed.
C13_WorkerTaskCompletes ==
    \A i \in 1..Len(tq_jobs) :
        /\ (/\ JobOver(i)
            /\ tq_jobs[i].func = "execute_agent_task"
            /\ tq_jobs[i].kwargs.agent_name = INFRASTRUCTURE_MONITOR
            /\ tq_jobs[i].log \cap {"agent.run", "create_session", "trace"} = {})
           => /\ tq_jobs[i].status = "finished"
              /\ tq_jobs[i].result # <<>>
              /\ tq_jobs[i].result[1].status = "completed"
              /\ tq_jobs[i].result[1].agent = INFRASTRUCTURE_MONITOR
              /\ tq_jobs[i].result[1].session_id = tq_jobs[i].kwargs.session_id
        /\ (tq_jobs[i].status = "failed")
           => \/ tq_jobs[i].kwargs.agent_name # INFRASTRUCTURE_MONITOR
              \/ tq_jobs[i].log # {}

Registered(task_name) ==
    task_name \in {"execute_agent_task", "process_long_running_agent_task"}

EnqueueCalled == tq_call.task_name # ""

LastJobIs(task_name, id) ==
    /\ tq_jobs # << >>
    /\ tq_jobs[Len(tq_jobs)].id = id
    /\ tq_jobs[Len(tq_jobs)].func = task_name

\* C14 as stated: absent and no job when the queue is disabled or the name is
\* not registered; in every other case exactly one job, whose id is returned;
\* never an exception.
C14_EnqueueAsStated ==
    EnqueueCalled
    => /\ ~tq_call.raised
       /\ IF ~tq_enabled \/ ~Registered(tq_call.task_name)
          THEN tq_call.returned = <<>> /\ tq_call.submitted = 0
          ELSE /\ tq_call.submitted = 1
               /\ tq_call.returned # <<>>
               /\ LastJobIs(tq_call.task_name, tq_call.returned[1])

\* C14: enqueue_task never raises; it returns absent and submits no job when the
\* queue is disabled, the name is not registered, or the submission to the
\* broker raised; in every other case it submits exactly one job and returns
\* that job's id.
C14_EnqueueTask ==
    EnqueueCalled
    => /\ ~tq_call.raised
       /\ IF ~tq_enabled \/ ~Registered(tq_call.task_name) \/ ~tq_call.broker_ok
          THEN tq_call.returned = <<>> /\ tq_call.submitted = 0
          ELSE /\ tq_call.submitted = 1
               /\ tq_call.returned # <<>>
               /\ LastJobIs(tq_call.task_name, tq_call.returned[1])

\* The last call named a registered task on an enabled queue and came back
\* absent because the broker refused it, after an earlier call had submitted a job.
C14_Witness ==
    /\ EnqueueCalled
    /\ tq_enabled /\ Registered(tq_call.task_name) /\ ~tq_call.broker_ok
    /\ tq_call.returned = <<>>
    /\ Len(tq_jobs) = 1

-----------------------------------------------------------------------------
(***************************************************************************)
(* EventBus.publish and the EventDispatcher                                *)
(***************************************************************************)

MaxPublishes == 2    \* publish calls (direct or through the dispatcher) in one run

\* str(uuid4()) of the n-th event
EventIds == <<"e1", "e2", "e3", "e4">>

\* The type each EventDispatcher method gives its event.
dispatcher_type ==
    [session_started |-> "session_started",
     session_ended |-> "session_ended",
     agent_message_start |-> "agent_message_start",
     agent_message_delta |-> "agent_message_delta",
     agent_message_end |-> "agent_message_end",
     tool_call_started |-> "tool_call_started",
     tool_call_delta |-> "tool_call_delta",
     tool_call_result |-> "tool_call_result",
     workflow_started |-> "workflow_started",
     workflow_step_started |-> "workflow_step_started",
     workflow_step_completed |-> "workflow_step_completed",
     workflow_transition |-> "workflow_transition",
     workflow_completed |-> "workflow_completed",
     agent_thought |-> "agent_thought",
     run_error |-> "run_error",
     run_retry |-> "run_retry",
     run_interrupted |-> "run_interrupted",
     retrieval_started |-> "retrieval_started",
     retrieval_result |-> "retrieval_result",
     automation_triggered |-> "automation_triggered",
     automation_completed |-> "automation_completed",
     metrics_update |-> "metrics_update"]

DispatcherOps == DOMAIN dispatcher_type

\* datetime.utcnow() of the n-th event: a datetime is <<"datetime", time of day>>.
Datetimes == { <<"datetime", t>> : t \in {"12:00:00", "12:00:00.000001", "12:00:01", "12:00:02"} }
Timestamps == <<<<"datetime", "12:00:00">>, <<"datetime", "12:00:00.000001">>,
                <<"datetime", "12:00:01">>, <<"datetime", "12:00:02">>>>

\* datetime.isoformat()
isoformat(d) == "2024-01-01T" \o d[2]

\* The datetime pydantic parses from an ISO 8601 string.
parse_datetime(text) == CHOOSE d \in Datetimes : isoformat(d) = text

\* Payloads are Python dicts of one entry, <<kind, content>>:
\*   <<"dict", s>>           {s: 1}
\*   <<"dict_list", s>>      {s: [1, 2]}
\*   <<"dict_tuple", s>>     {s: (1, 2)}
\*   <<"dict_datetime", t>>  {"at": datetime of time t}
\*   <<"dict_str", text>>    {"at": text}
\*   <<"dict_error", <<e, m, a>>>>  {"error_type": e, "message": m, "agent": a}
PayloadTags == {"data", "a"} \cup DispatcherOps

\* The payloads that hold JSON values only.
JsonPayloads ==
    { <<"dict", s>> : s \in PayloadTags } \cup { <<"dict_list", s>> : s \in PayloadTags }
       \cup { <<"dict_str", isoformat(d)>> : d \in Datetimes }

\* model_dump(mode="json") of the payload: values that are not JSON values
\* are converted by their runtime type, a tuple to a list and a datetime to
\* its ISO string.
payload_json_mode(payload) ==
    CASE payload[1] = "dict_tuple" -> <<"dict_list", payload[2]>>
      [] payload[1] = "dict_datetime" -> <<"dict_str", isoformat(<<"datetime", payload[2]>>)>>
      [] OTHER -> payload

\* json.dumps of a dumped payload
payload_dumps(payload) ==
    CASE payload[1] = "dict" -> "{\"" \o payload[2] \o "\": 1}"
      [] payload[1] = "dict_list" -> "{\"" \o payload[2] \o "\": [1, 2]}"
      [] payload[1] = "dict_str" -> "{\"at\": \"" \o payload[2] \o "\"}"
      [] payload[1] = "dict_error" ->
            "{\"error_type\": \"" \o payload[2][1] \o "\", \"message\": \"" \o payload[2][2]
               \o "\", \"agent\": \"" \o payload[2][3] \o "\"}"

\* json.loads of the payload text: the dict whose JSON text this is.
payload_loads(text) == CHOOSE payload \in JsonPayloads : payload_dumps(payload) = text

\* Event(event_id=..., session_id=..., timestamp=..., type=..., payload=...);
\* a caller that gives no event_id or timestamp gets them from the default
\* factories.
Event(event_id, session_id, timestamp, type, payload) ==
    [event_id |-> event_id, session_id |-> session_id, timestamp |-> timestamp, type |-> type,
     payload |-> payload]

\* Event.to_json: json.dumps(self.model_dump(mode="json")), the JSON document
\* as the texts of its five members.
to_json(event) ==
    [event_id |-> event.event_id, session_id |-> event.session_id,
     timestamp |-> isoformat(event.timestamp), type |-> event.type,
     payload |-> payload_dumps(payload_json_mode(event.payload))]

\* A from_json that keeps the fields of the document but lets the default
\* factory give the event a new event_id.
from_json_regenerate(json_str) ==
    Event("new-" \o json_str.event_id, json_str.session_id, parse_datetime(json_str.timestamp),
          json_str.type, payload_loads(json_str.payload))

\* Event.from_json: cls(**json.loads(json_str))
from_json(json_str) ==
    Event(json_str.event_id, json_str.session_id, parse_datetime(json_str.timestamp),
          json_str.type, payload_loads(json_str.payload))

\* Mutant of dispatcher_event: every method publishes a generic event.
dispatcher_event_generic(op, session_id, event_id, timestamp) ==
    Event(event_id, session_id, timestamp, "event", <<"dict", op>>)

\* The event a dispatcher method builds for its target session.
dispatcher_event(op, session_id, event_id, timestamp) ==
    Event(event_id, session_id, timestamp, dispatcher_type[op], <<"dict", op>>)

\* Mutant of publish_targets: the broadcast channel is always written.
publish_targets_broadcast(event, broadcast) ==
    <<session_channel(event.session_id), broadcast_channel>>

\* publish, lines 57-71: the channels written, in order.
publish_targets(event, broadcast) ==
    IF broadcast
    THEN <<session_channel(event.session_id), broadcast_channel>>
    ELSE <<session_channel(event.session_id)>>

StartPublish(op, event, broadcast) ==
    /\ bus_pub.pc \in {"idle", "done"}
    /\ bus_count < MaxPublishes
    /\ bus_count' = bus_count + 1
    /\ bus_pub' = [pc |-> "publishing", op |-> op, target |-> event.session_id,
                   event |-> event, broadcast |-> broadcast,
                   todo |-> publish_targets(event, broadcast),
                   raised |-> FALSE, error |-> FALSE,
                   before |-> [c \in Channels |-> Len(bus_channels[c])]]
    /\ UNCHANGED bus_channels

\* A caller awaits bus.publish(event, broadcast).
BusPublish(session_id, broadcast) ==
    StartPublish("publish",
                 Event(EventIds[bus_count + 1], session_id, Timestamps[bus_count + 1], "custom",
                       <<"dict", "data">>),
                 broadcast)

\* A caller awaits one of the dispatcher's methods: it builds its event and
\* awaits self.bus.publish(event).
BusDispatch(op, session_id) ==
    StartPublish(op, dispatcher_event(op, session_id, EventIds[bus_count + 1],
                                      Timestamps[bus_count + 1]), FALSE)

\* await self.redis_client.publish(channel, event.to_json()): the message is
\* written, or the transport raises and publish logs and re-raises.
BusWrite(ok) ==
    /\ bus_pub.pc = "publishing"
    /\ IF ok
       THEN /\ bus_channels' = [bus_channels EXCEPT
                                  ![Head(bus_pub.todo)] = Append(@, to_json(bus_pub.event))]
            /\ bus_pub' = [bus_pub EXCEPT !.todo = Tail(@),
                                          !.pc = IF Tail(bus_pub.todo) = <<>>
                                                 THEN "done" ELSE "publishing"]
       ELSE /\ bus_pub' = [bus_pub EXCEPT !.error = TRUE, !.raised = TRUE, !.pc = "done"]
            /\ UNCHANGED bus_channels
    /\ UNCHANGED bus_count

InitBus ==
    /\ BusIdle
    /\ StreamIdle
    /\ CacheIdle
    /\ LateIdle
    /\ ChatIdle
    /\ tq_enabled = TRUE
    /\ QueueIdle
    /\ AgentIdle
    /\ SessIdle
    /\ rl_limit = 1
    /\ RateIdle
    /\ AuthIdle

BusFrame ==
    UNCHANGED <<rateVars, authVars, sessVars, agentVars, chatVars, queueVars, streamVars, cacheVars,
                lateVars>>

NextBus ==
    \/ \E session_id \in BusSessions, broadcast \in BOOLEAN :
           BusPublish(session_id, broadcast) /\ BusFrame
    \/ \E op \in DispatcherOps, session_id \in BusSessions :
           BusDispatch(op, session_id) /\ BusFrame
    \/ \E ok \in BOOLEAN : BusWrite(ok) /\ BusFrame

SpecBus == InitBus /\ [][NextBus]_vars

(***************************************************************************)
(* Claims about publishing                                                 *)
(***************************************************************************)

\* Messages the call in progress or last made has written to a channel.
Written(c) == Len(bus_channels[c]) - bus_pub.before[c]

LastOn(c) == bus_channels[c][Len(bus_channels[c])]

PublishOver == bus_pub.pc = "done"

\* C15: a publish call that returns has written exactly one message on
\* session:<event.session_id>, one more with the same payload on broadcast:all
\* exactly when broadcast is set, and nothing elsewhere; a transport error ends
\* the call by raising, with no message written after the failed one.
C15_Publish ==
    /\ (PublishOver /\ bus_pub.op = "publish" /\ ~bus_pub.raised)
       => /\ ~bus_pub.error
          /\ Written("session:" \o bus_pub.event.session_id) = 1
          /\ LastOn("session:" \o bus_pub.event.session_id) = to_json(bus_pub.event)
          /\ Written("broadcast:all") = (IF bus_pub.broadcast THEN 1 ELSE 0)
          /\ bus_pub.broadcast => LastOn("broadcast:all") = to_json(bus_pub.event)
          /\ \A c \in Channels \ {"session:" \o bus_pub.event.session_id, "broadcast:all"} :
                Written(c) = 0
    /\ (PublishOver /\ bus_pub.op = "publish" /\ bus_pub.error)
       => /\ bus_pub.raised
          /\ Written("session:" \o bus_pub.event.session_id) <= 1
          /\ Written("broadcast:all") = 0
    /\ \A c \in Channels : Written(c) <= 1

\* A broadcast publish whose second write failed has raised, after the session
\* channel got its message.
C15_Witness ==
    /\ PublishOver /\ bus_pub.op = "publish" /\ bus_pub.broadcast
    /\ bus_pub.raised
    /\ Written("session:" \o bus_pub.event.session_id) = 1
    /\ Len(bus_channels["broadcast:all"]) = 1

\* C16: a dispatcher operation that returns has published exactly one event, of
\* the operation's kind and for the target session, on that session's channel;
\* no dispatcher operation, returned or raised, writes to the broadcast
\* channel or to another session's channel.
C16_DispatcherRouting ==
    (bus_pub.op \in DispatcherOps)
    => /\ Written("broadcast:all") = 0
       /\ \A sid \in BusSessions \ {bus_pub.target} : Written("session:" \o sid) = 0
       /\ Written("session:" \o bus_pub.target) <= 1
       /\ (PublishOver /\ ~bus_pub.raised)
          => /\ Written("session:" \o bus_pub.target) = 1
             /\ from_json(LastOn("session:" \o bus_pub.target)).type = bus_pub.op
             /\ from_json(LastOn("session:" \o bus_pub.target)).session_id = bus_pub.target
       /\ (PublishOver /\ bus_pub.raised) => Written("session:" \o bus_pub.target) = 0

\* Two dispatcher operations of different kinds for different sessions have returned.
C16_Witness ==
    /\ PublishOver /\ ~bus_pub.raised
    /\ bus_pub.op = "tool_call_started" /\ bus_pub.target = "s2"
    /\ Len(bus_channels["session:s1"]) = 1
    /\ from_json(bus_channels["session:s1"][1]).type = "session_started"
    /\ bus_channels["broadcast:all"] = << >>

-----------------------------------------------------------------------------
\* SSE streaming: api/routes/events.py (stream_events, event_generator) over
\* event_bus/bus.py (EventBus.stream_session_events).
\*
\* stream_session_events is an async generator: it runs only while its
\* consumer awaits the next event, and is suspended at a yield otherwise. The
\* consumer, event_generator, is itself an async generator driven by the
\* StreamingResponse. A generator left suspended at a yield is finalised by the
\* event loop (aclose: GeneratorExit raised at the yield), which runs its
\* finally block.

MaxStreamEvents == 3

StreamSessions == {"", "s1"}

PollResults == {"timeout", "message", "garbage", "error"}

\* What a publisher puts on a channel: the JSON text of an event, or a text
\* that is not one.
StreamMessages(session_id, n) ==
    {<<"event", to_json(dispatcher_event("tool_call_started", session_id, EventIds[n], Timestamps[n]))>>,
     <<"text", "not an event">>}

\* The broker hands a published message to the subscription of the stream
\* when the stream is subscribed to that channel at the time of the publish.
\* Mutant: a subscription that hears every channel.
receives_any(subscribed, channel, session_id) == subscribed

receives(subscribed, channel, session_id) == subscribed /\ channel = session_channel(session_id)

\* "initial_event = Event(session_id=session_id, type="session_stream_started", ...)"
initial_event(session_id) ==
    Event("u0", session_id, Timestamps[1], "session_stream_started", <<"dict", "message">>)

\* The event built in "except Exception as e" of event_generator.
error_event(session_id) ==
    Event("u1", session_id, Timestamps[2], "run_error",
          <<"dict_error", <<"stream_error", "error", "system">>>>)

\* Event.to_sse: "event: <type>\ndata: <json>\n\n", as its two fields.
to_sse(event) ==
    [event |-> event.type,
     data |-> [event_id |-> event.event_id, session_id |-> event.session_id,
               timestamp |-> isoformat(event.timestamp), type |-> event.type,
               payload |-> payload_dumps(payload_json_mode(event.payload))]]

\* Mutant of generator_except: the error is only logged.
generator_except_silent(exc, session_id) == << >>

\* The except clauses of event_generator: the blocks yielded when
\* stream_session_events ends with exc ("" when it just ended).
generator_except(exc, session_id) ==
    IF exc = "error" THEN <<to_sse(error_event(session_id))>> ELSE << >>

\* "finally: await pubsub_client.unsubscribe(channel)": when the call raises,
\* the exception leaves the finally block and close() is not reached.
stream_finally(ok) ==
    /\ st_unsub' = IF ok THEN "returned" ELSE "raised"
    /\ st_sub' = IF ok THEN FALSE ELSE st_sub
    /\ st_exc' = IF ok THEN st_exc ELSE "error"
    /\ st_pc' = IF ok THEN "close" ELSE "ended"
    /\ UNCHANGED st_closed

\* stream_events up to the StreamingResponse: 400 for an empty session id, 503
\* when the event bus cannot be obtained, else the response starts to iterate
\* event_generator, which starts to iterate stream_session_events.
SSEConnect(session_id, bus_ok) ==
    /\ sse_pc = "idle" /\ sse_status = 0
    /\ IF session_id = ""
         THEN /\ sse_status' = HTTP_BAD_REQUEST
              /\ UNCHANGED <<sse_pc, sse_client, st_pc>>
         ELSE IF ~bus_ok
         THEN /\ sse_status' = HTTP_UNAVAILABLE
              /\ UNCHANGED <<sse_pc, sse_client, st_pc>>
         ELSE /\ sse_status' = 200
              /\ sse_pc' = "next"
              /\ sse_client' = "connected"
              /\ st_pc' = "subscribe"
    /\ st_session' = IF session_id # "" /\ bus_ok THEN session_id ELSE st_session
    /\ UNCHANGED <<sse_out, stop_event, st_sub, st_unsub, st_closed, st_exc, st_polled>>
    /\ UNCHANGED <<ps_inbox, ps_log, st_yielded>>

\* The client goes away while the stream is open.
ClientDisconnect ==
    /\ sse_client = "connected"
    /\ sse_pc \notin {"idle", "closed"}
    /\ sse_client' = "disconnected"
    /\ UNCHANGED <<sse_status, sse_pc, sse_out, stop_event, st_pc, st_sub, st_unsub, st_closed,
                   st_exc, st_polled>>
    /\ UNCHANGED pubsubVars

\* "await pubsub_client.subscribe(channel)", then the initial event is yielded;
\* a failure is logged and re-raised through the finally block.
StSubscribe(ok) ==
    /\ st_pc = "subscribe" /\ sse_pc = "next"
    /\ IF ok
         THEN /\ st_sub' = TRUE
              /\ st_pc' = "yield_initial"
              /\ sse_pc' = "got"
              /\ st_yielded' = Append(st_yielded, initial_event(st_session))
              /\ UNCHANGED st_exc
         ELSE /\ st_exc' = "error"
              /\ st_pc' = "unsubscribe"
              /\ UNCHANGED <<st_sub, sse_pc, st_yielded>>
    /\ UNCHANGED <<st_session, ps_inbox, ps_log>>
    /\ UNCHANGED <<sse_status, sse_client, sse_out, stop_event, st_unsub, st_closed, st_polled>>

\* event_generator's loop body: on a disconnected client set the stop signal
\* and break (the finally block sets it again); else yield the SSE block.
SSECheck ==
    /\ sse_pc = "got"
    /\ IF sse_client = "disconnected"
         THEN /\ stop_event' = TRUE
              /\ sse_pc' = "closed"
              /\ UNCHANGED sse_out
         ELSE /\ sse_pc' = "sending"
              /\ sse_out' = Append(sse_out, to_sse(st_yielded[Len(st_yielded)]))
              /\ UNCHANGED stop_event
    /\ UNCHANGED <<sse_status, sse_client, st_pc, st_sub, st_unsub, st_closed, st_exc, st_polled>>
    /\ UNCHANGED pubsubVars

\* The response has sent the block and asks for the next one: both generators
\* resume after their yield.
SSEResume ==
    /\ sse_pc = "sending"
    /\ sse_pc' = "next"
    /\ st_pc' = "loop"
    /\ UNCHANGED <<sse_status, sse_client, sse_out, stop_event, st_sub, st_unsub, st_closed,
                   st_exc, st_polled>>
    /\ UNCHANGED pubsubVars

\* The response stops iterating while event_generator is suspended at a yield
\* (the send to a vanished client fails, or the response task is cancelled):
\* the generator is finalised and its finally block sets the stop signal.
SSEAbandon ==
    /\ sse_pc \in {"sending", "error_sending"}
    /\ sse_client = "disconnected"
    /\ sse_pc' = "closed"
    /\ stop_event' = TRUE
    /\ UNCHANGED <<sse_status, sse_client, sse_out, st_pc, st_sub, st_unsub, st_closed, st_exc,
                   st_polled>>
    /\ UNCHANGED pubsubVars

\* The response task is cancelled while event_generator awaits the next event:
\* CancelledError is raised at the await inside stream_session_events, which
\* "except Exception" does not catch, and the finally block runs.
SSECancel ==
    /\ sse_client = "disconnected"
    /\ sse_pc = "next"
    /\ st_pc \in {"subscribe", "loop", "poll"}
    /\ st_exc' = "cancelled"
    /\ st_pc' = "unsubscribe"
    /\ UNCHANGED <<sse_status, sse_pc, sse_client, sse_out, stop_event, st_sub, st_unsub,
                   st_closed, st_polled>>
    /\ UNCHANGED pubsubVars

\* "while not stop_event.is_set()"
StLoop ==
    /\ st_pc = "loop" /\ sse_pc = "next"
    /\ st_pc' = IF stop_event THEN "unsubscribe" ELSE "poll"
    /\ UNCHANGED <<sse_status, sse_pc, sse_client, sse_out, stop_event, st_sub, st_unsub,
                   st_closed, st_exc, st_polled>>
    /\ UNCHANGED pubsubVars

\* One round of "await asyncio.wait_for(pubsub_client.get_message(...))":
\* nothing within the timeout, the oldest unread message, which parses
\* (yielded) or does not (logged and skipped), or an error of the connection.
StPoll(result) ==
    /\ st_pc = "poll" /\ sse_pc = "next"
    /\ result = "timeout" => ps_inbox = << >>
    /\ result = "message" => ps_inbox # << >> /\ Head(ps_inbox)[1] = "event"
    /\ result = "garbage" => ps_inbox # << >> /\ Head(ps_inbox)[1] # "event"
    /\ ps_inbox' = IF result \in {"message", "garbage"} THEN Tail(ps_inbox) ELSE ps_inbox
    /\ st_yielded' = IF result = "message" THEN Append(st_yielded, from_json(Head(ps_inbox)[2]))
                     ELSE st_yielded
    /\ UNCHANGED <<st_session, ps_log>>
    /\ st_polled' = IF result \in {"message", "garbage"} THEN st_polled + 1 ELSE st_polled
    /\ st_pc' = CASE result = "message" -> "yield_event"
                  [] result = "error" -> "unsubscribe"
                  [] OTHER -> "loop"
    /\ sse_pc' = IF result = "message" THEN "got" ELSE sse_pc
    /\ st_exc' = IF result = "error" THEN "error" ELSE st_exc
    /\ UNCHANGED <<sse_status, sse_client, sse_out, stop_event, st_sub, st_unsub, st_closed>>

\* event_generator is over and stream_session_events is still suspended at a
\* yield: the event loop finalises it, GeneratorExit is raised at the yield and
\* the finally block runs.
StFinalize ==
    /\ sse_pc = "closed"
    /\ st_pc \in {"yield_initial", "yield_event"}
    /\ st_exc' = "exit"
    /\ st_pc' = "unsubscribe"
    /\ UNCHANGED <<sse_status, sse_pc, sse_client, sse_out, stop_event, st_sub, st_unsub,
                   st_closed, st_polled>>
    /\ UNCHANGED pubsubVars

\* First statement of the finally block.
StUnsubscribe(ok) ==
    /\ st_pc = "unsubscribe"
    /\ stream_finally(ok)
    /\ UNCHANGED <<sse_status, sse_pc, sse_client, sse_out, stop_event, st_polled>>
    /\ UNCHANGED pubsubVars

\* Second statement of the finally block.
StClose ==
    /\ st_pc = "close"
    /\ st_closed' = TRUE
    /\ st_pc' = "ended"
    /\ UNCHANGED <<sse_status, sse_pc, sse_client, sse_out, stop_event, st_sub, st_unsub,
                   st_exc, st_polled>>
    /\ UNCHANGED pubsubVars

\* stream_session_events is over while event_generator awaits it: the loop
\* ends, or "except asyncio.CancelledError" sets the stop signal, or "except
\* Exception" yields one run_error block; the finally block sets the stop
\* signal when the generator ends.
SSEInnerEnded ==
    /\ sse_pc = "next" /\ st_pc = "ended"
    /\ sse_out' = sse_out \o generator_except(st_exc, st_session)
    /\ IF generator_except(st_exc, st_session) # << >>
         THEN /\ sse_pc' = "error_sending"
              /\ UNCHANGED stop_event
         ELSE /\ sse_pc' = "closed"
              /\ stop_event' = TRUE
    /\ UNCHANGED <<sse_status, sse_client, st_pc, st_sub, st_unsub, st_closed, st_exc, st_polled>>
    /\ UNCHANGED pubsubVars

\* The run_error block has been sent: event_generator ends through its finally.
SSEErrorSent ==
    /\ sse_pc = "error_sending"
    /\ sse_pc' = "closed"
    /\ stop_event' = TRUE
    /\ UNCHANGED <<sse_status, sse_client, sse_out, st_pc, st_sub, st_unsub, st_closed, st_exc,
                   st_polled>>
    /\ UNCHANGED pubsubVars

\* Somebody publishes on the channel of a session while the stream exists or
\* before; the broker delivers the message to the subscription at once.
StreamPublish(session_id, message) ==
    /\ Len(ps_log) < MaxStreamEvents
    /\ message \in StreamMessages(session_id, Len(ps_log) + 1)
    /\ ps_log' = Append(ps_log, [channel |-> session_channel(session_id), message |-> message,
                                 subscribed |-> st_sub])
    /\ ps_inbox' = IF receives(st_sub, session_channel(session_id), st_session)
                   THEN Append(ps_inbox, message) ELSE ps_inbox
    /\ UNCHANGED <<st_session, st_yielded>>
    /\ UNCHANGED streamVars

InitStream ==
    /\ StreamIdle
    /\ BusIdle
    /\ CacheIdle
    /\ LateIdle
    /\ ChatIdle
    /\ tq_enabled = TRUE
    /\ QueueIdle
    /\ AgentIdle
    /\ SessIdle
    /\ rl_limit = 1
    /\ RateIdle
    /\ AuthIdle

StreamFrame ==
    UNCHANGED <<rateVars, authVars, sessVars, agentVars, chatVars, queueVars, busVars, cacheVars,
                eventVars, monitorVars, reviewVars, evalVars, metricsVars, turnVars, healthVars, budgetVars>>

\* The steps the two generators and the event loop take by themselves.
StreamSteps ==
    \/ \E ok \in BOOLEAN : StSubscribe(ok)
    \/ SSECheck
    \/ SSEResume
    \/ StLoop
    \/ \E result \in PollResults : StPoll(result)
    \/ StFinalize
    \/ \E ok \in BOOLEAN : StUnsubscribe(ok)
    \/ StClose
    \/ SSEInnerEnded
    \/ SSEErrorSent

NextStream ==
    \/ (\E session_id \in StreamSessions, bus_ok \in BOOLEAN : SSEConnect(session_id, bus_ok))
          /\ StreamFrame
    \/ ClientDisconnect /\ StreamFrame
    \/ (\E ok \in BOOLEAN : StSubscribe(ok)) /\ StreamFrame
    \/ SSECheck /\ StreamFrame
    \/ SSEResume /\ StreamFrame
    \/ SSEAbandon /\ StreamFrame
    \/ SSECancel /\ StreamFrame
    \/ StLoop /\ StreamFrame
    \/ (\E result \in PollResults : StPoll(result)) /\ StreamFrame
    \/ StFinalize /\ StreamFrame
    \/ (\E ok \in BOOLEAN : StUnsubscribe(ok)) /\ StreamFrame
    \/ StClose /\ StreamFrame
    \/ SSEInnerEnded /\ StreamFrame
    \/ SSEErrorSent /\ StreamFrame
    \/ (\E session_id \in BusSessions, n \in 1 .. MaxStreamEvents :
            \E message \in StreamMessages(session_id, n) : StreamPublish(session_id, message))
          /\ StreamFrame

SpecStream == InitStream /\ [][NextStream]_vars

\* The generators and the event loop keep running; whether the client goes
\* away, whether events arrive and whether the response task is cancelled is
\* left to the environment.
SpecStreamLive == SpecStream /\ WF_vars(StreamSteps /\ StreamFrame)

StreamOver == st_pc = "ended"

\* C17: when stream_session_events is over, whatever made it end, the session
\* channel has been unsubscribed (the call was made) and the dedicated
\* connection has been closed.
C17_SubscriptionCleanup ==
    StreamOver => (st_unsub # "no" /\ st_closed)

\* What does hold: the finally block is entered on every exit path, and a
\* stream whose unsubscribe returned has closed its connection and holds no
\* subscription.
C17_CleanupWhenUnsubscribeReturns ==
    StreamOver => /\ st_unsub # "no"
                  /\ (st_unsub = "returned") => (st_closed /\ ~st_sub)

\* C18: once the client has disconnected, the stop signal is eventually set
\* and stream_session_events eventually ends.
C18_TeardownOnDisconnect ==
    (sse_client = "disconnected") ~> (stop_event /\ StreamOver)

\* What does hold: once an event reaches event_generator after the disconnect,
\* the stop signal is set and the stream ends.
C18_TeardownOnNextEvent ==
    (sse_client = "disconnected" /\ sse_pc = "got") ~> (stop_event /\ StreamOver)

\* A publish of the log was made on the channel of the stream's session while
\* the stream was subscribed, and carried this event.
PublishedLive(event) ==
    \E k \in 1 .. Len(ps_log) :
        /\ ps_log[k].channel = session_channel(st_session)
        /\ ps_log[k].subscribed
        /\ ps_log[k].message[1] = "event"
        /\ from_json(ps_log[k].message[2]) = event

\* C25: the first event stream_session_events yields is the synthetic
\* session_stream_started, yielded once the subscription exists; every later
\* one is an event of this session that was published on its channel while
\* the stream was subscribed.
C25_StreamContent ==
    /\ st_yielded # << >> =>
          /\ st_yielded[1] = initial_event(st_session)
          /\ st_sub \/ st_unsub = "returned"
    /\ \A i \in 2 .. Len(st_yielded) :
          /\ st_yielded[i].session_id = st_session
          /\ st_yielded[i].type # "session_stream_started"
          /\ PublishedLive(st_yielded[i])

\* An event was delivered although one was published on the same channel
\* before the subscription and one on the channel of another session.
C25_Witness ==
    /\ Len(st_yielded) = 2
    /\ \E k \in 1 .. Len(ps_log) :
          ps_log[k].channel = session_channel(st_session) /\ ~ps_log[k].subscribed
             /\ ps_log[k].message[1] = "event"
    /\ \E k \in 1 .. Len(ps_log) : ps_log[k].channel # session_channel(st_session)

\* event_generator has caught an error of the stream.
StreamRaised == sse_pc = "next" /\ st_pc = "ended" /\ st_exc = "error"

RunErrorBlock == to_sse(error_event(st_session))

\* C26: when stream_session_events raises an error other than cancellation,
\* the response gets exactly one run_error block (error_type stream_error,
\* agent system) after the blocks delivered before, nothing after it, and the
\* stop signal is set.
C26_ErrorPath ==
    /\ [](\A i \in 1 .. Len(sse_out) :
             sse_out[i].event = "run_error" => (i = Len(sse_out) /\ sse_out[i] = RunErrorBlock))
    /\ [][StreamRaised => (sse_out' = sse_out \/ sse_out' = Append(sse_out, RunErrorBlock))]_vars
    /\ (StreamRaised ~>
           (sse_pc = "closed" /\ stop_event /\ sse_out # << >>
              /\ sse_out[Len(sse_out)] = RunErrorBlock))

\* The stream failed after an event had been delivered, and the response is over.
C26_Witness ==
    /\ sse_pc = "closed" /\ stop_event
    /\ Len(sse_out) = 3
    /\ sse_out[1].event = "session_stream_started"
    /\ sse_out[2].event = "tool_call_started"
    /\ sse_out[3] = RunErrorBlock

-----------------------------------------------------------------------------
\* CacheService: services/cache_service.py.
\*
\* Python values are pairs <<kind, payload>>; None is PyNone. The broker holds
\* text: values are stored as their JSON text and read back by parsing it.

MaxCacheWrites == 2
\* The seconds of the broker's clock that are looked at.
CacheTimes == 0 .. 2

CacheTtls == {0, 2}

PyFalse == <<"bool", 0>>
PyTrue == <<"bool", 1>>
PyInt(n) == <<"int", n>>
PyStr(s) == <<"str", s>>
\* The dict {s: 1}.
PyDict(s) == <<"dict", s>>

Digits == <<"0", "1", "2", "3", "4", "5", "6", "7", "8", "9">>

\* The JSON values the callers cache.
JsonValues == {PyNone, PyInt(0), PyDict("a")}

\* The JSON values a stored text can stand for.
JsonUniverse ==
    {PyNone, PyFalse, PyTrue} \cup { PyInt(n) : n \in 0 .. 9 }
       \cup { PyStr(s) : s \in {"", "a"} } \cup { PyDict(s) : s \in {"a"} }

\* json.dumps
json_dumps(v) ==
    CASE v[1] = "null" -> "null"
      [] v[1] = "bool" -> IF v[2] = 1 THEN "true" ELSE "false"
      [] v[1] = "int" -> Digits[v[2] + 1]
      [] v[1] = "str" -> "\"" \o v[2] \o "\""
      [] v[1] = "dict" -> "{\"" \o v[2] \o "\": 1}"

\* json.loads: the value whose JSON text this is.
json_loads(text) == CHOOSE v \in JsonUniverse : json_dumps(v) = text

\* bool(v) of a Python value.
PyTruthy(v) ==
    CASE v[1] = "null" -> FALSE
      [] v[1] = "bool" -> v[2] = 1
      [] v[1] = "int" -> v[2] # 0
      [] v[1] = "str" -> v[2] # ""
      [] v[1] = "dict" -> TRUE

\* A key is there until its expiry time.
Live(store, now, key) ==
    /\ store[key] # << >>
    /\ store[key][1].expires # << >> => now < store[key][1].expires[1]

\* GET: the stored text, or nil
redis_get(store, now, key) == IF Live(store, now, key) THEN <<store[key][1].data>> ELSE << >>

\* SETEX rejects a non-positive expire time.
redis_setex_ok(ttl) == ttl > 0

\* The text is the decimal form of an integer.
IsIntegerText(text) == \E n \in 0 .. 9 : Digits[n + 1] = text
IntegerOf(text) == CHOOSE n \in 0 .. 9 : Digits[n + 1] = text

\* "if value:" taken on the decoded value instead of the text read.
if_value_decoded(reply) == reply # << >> /\ PyTruthy(json_loads(reply[1]))

\* "if value:" in get: the reply is neither None nor the empty string.
if_value(reply) == reply # << >> /\ reply[1] # ""

\* A constructor that keeps the client whatever the ping did.
cache_init_keep(ping_ok) == TRUE

\* __init__: the client is kept when the ping succeeds, else set to None.
cache_init(ping_ok) == ping_ok

CacheCall(op, key, returned, broker_ok) ==
    [op |-> op, key |-> key, returned |-> returned, raised |-> FALSE, broker_ok |-> broker_ok]

CacheWrite(op, value, ttl, returned) ==
    [op |-> op, value |-> value, until |-> cache_now + ttl, returned |-> returned]

\* get(key)
CacheGet(key, ok) ==
    /\ LET reply == redis_get(cache_store, cache_now, key)
           returned == IF ~cache_client \/ ~ok THEN PyNone
                       ELSE IF if_value(reply) THEN json_loads(reply[1]) ELSE PyNone
       IN  cache_call' = CacheCall("get", key, returned, ok)
    /\ cache_touched' = (cache_touched \/ cache_client)
    /\ UNCHANGED <<cache_ping, cache_client, cache_store, cache_now, cache_last, cache_writes>>

\* set(key, value, ttl)
CacheSet(key, value, ttl, ok) ==
    /\ cache_writes < MaxCacheWrites
    /\ cache_writes' = cache_writes + 1
    /\ LET stored == cache_client /\ ok /\ redis_setex_ok(ttl)
           returned == IF stored THEN PyTrue ELSE PyFalse
       IN  /\ cache_store' =
                IF stored
                  THEN [cache_store EXCEPT ![key] =
                           <<[data |-> json_dumps(value), expires |-> <<cache_now + ttl>>]>>]
                  ELSE cache_store
           /\ cache_call' = CacheCall("set", key, returned, ok)
           /\ cache_last' = [cache_last EXCEPT ![key] = CacheWrite("set", value, ttl, returned)]
    /\ cache_touched' = (cache_touched \/ cache_client)
    /\ UNCHANGED <<cache_ping, cache_client, cache_now>>

\* delete(key)
CacheDelete(key, ok) ==
    /\ cache_writes < MaxCacheWrites
    /\ cache_writes' = cache_writes + 1
    /\ LET done == cache_client /\ ok
           returned == IF done THEN PyTrue ELSE PyFalse
       IN  /\ cache_store' = IF done THEN [cache_store EXCEPT ![key] = << >>] ELSE cache_store
           /\ cache_call' = CacheCall("delete", key, returned, ok)
           /\ cache_last' = [cache_last EXCEPT ![key] = CacheWrite("delete", PyNone, 0, returned)]
    /\ cache_touched' = (cache_touched \/ cache_client)
    /\ UNCHANGED <<cache_ping, cache_client, cache_now>>

\* exists(key)
CacheExists(key, ok) ==
    /\ LET returned == IF cache_client /\ ok /\ Live(cache_store, cache_now, key)
                         THEN PyTrue ELSE PyFalse
       IN  cache_call' = CacheCall("exists", key, returned, ok)
    /\ cache_touched' = (cache_touched \/ cache_client)
    /\ UNCHANGED <<cache_ping, cache_client, cache_store, cache_now, cache_last, cache_writes>>

\* increment(key) with the default amount 1: INCRBY creates the key without
\* expiry, keeps the expiry of a key that is there, and rejects a value that
\* is not an integer.
CacheIncrement(key, ok) ==
    /\ cache_writes < MaxCacheWrites
    /\ cache_writes' = cache_writes + 1
    /\ LET live == Live(cache_store, cache_now, key)
           old == IF live THEN cache_store[key][1].data ELSE "0"
           done == cache_client /\ ok /\ IsIntegerText(old)
           new == IF done THEN IntegerOf(old) + 1 ELSE 0
           returned == IF done THEN PyInt(new) ELSE PyNone
       IN  /\ cache_store' =
                IF done
                  THEN [cache_store EXCEPT ![key] =
                           <<[data |-> Digits[new + 1],
                              expires |-> IF live THEN cache_store[key][1].expires ELSE << >>]>>]
                  ELSE cache_store
           /\ cache_call' = CacheCall("increment", key, returned, ok)
           /\ cache_last' = [cache_last EXCEPT ![key] = CacheWrite("increment", PyNone, 0, returned)]
    /\ cache_touched' = (cache_touched \/ cache_client)
    /\ UNCHANGED <<cache_ping, cache_client, cache_now>>

\* get_cache_stats(): the status entry of the dict it returns
CacheStats(ok) ==
    /\ LET status == IF ~cache_client THEN "disconnected"
                     ELSE IF ok THEN "connected" ELSE "error"
       IN  cache_call' = CacheCall("get_cache_stats", "", PyStr(status), ok)
    /\ cache_touched' = (cache_touched \/ cache_client)
    /\ UNCHANGED <<cache_ping, cache_client, cache_store, cache_now, cache_last, cache_writes>>

\* One second passes at the broker.
CacheTick ==
    /\ cache_now + 1 \in CacheTimes
    /\ cache_now' = cache_now + 1
    /\ UNCHANGED <<cache_ping, cache_client, cache_store, cache_call, cache_last, cache_touched,
                   cache_writes>>

InitCache ==
    /\ \E ping_ok \in BOOLEAN :
          /\ cache_ping = ping_ok
          /\ cache_client = cache_init(ping_ok)
    /\ cache_store = [k \in CacheKeys |-> << >>]
    /\ cache_now = 0
    /\ cache_call = NoCacheCall
    /\ cache_last = [k \in CacheKeys |-> NoWrite]
    /\ cache_touched = FALSE
    /\ cache_writes = 0
    /\ LateIdle
    /\ StreamIdle
    /\ BusIdle
    /\ ChatIdle
    /\ tq_enabled = TRUE
    /\ QueueIdle
    /\ AgentIdle
    /\ SessIdle
    /\ rl_limit = 1
    /\ RateIdle
    /\ AuthIdle

CacheFrame ==
    UNCHANGED <<rateVars, authVars, sessVars, agentVars, chatVars, queueVars, busVars, streamVars,
                lateVars>>

NextCache ==
    \/ (\E key \in CacheKeys, ok \in BOOLEAN : CacheGet(key, ok)) /\ CacheFrame
    \/ (\E key \in CacheKeys, value \in JsonValues, ttl \in CacheTtls, ok \in BOOLEAN :
           CacheSet(key, value, ttl, ok)) /\ CacheFrame
    \/ (\E key \in CacheKeys, ok \in BOOLEAN : CacheDelete(key, ok)) /\ CacheFrame
    \/ (\E key \in CacheKeys, ok \in BOOLEAN : CacheExists(key, ok)) /\ CacheFrame
    \/ (\E key \in CacheKeys, ok \in BOOLEAN : CacheIncrement(key, ok)) /\ CacheFrame
    \/ (\E ok \in BOOLEAN : CacheStats(ok)) /\ CacheFrame
    \/ CacheTick /\ CacheFrame

SpecCache == InitCache /\ [][NextCache]_vars

\* The last writing call on the key of the call just made.
LastWrite == cache_last[cache_call.key]

BeforeExpiry == cache_now < LastWrite.until

C19_WitnessDelete ==
    /\ cache_call.op = "exists" /\ cache_call.broker_ok
    /\ LastWrite.op = "delete" /\ LastWrite.returned = PyTrue
    /\ cache_writes = 2 /\ cache_touched
    /\ cache_call.returned = PyFalse

\* The value a degraded service returns from each operation.
Degraded(op) ==
    CASE op \in {"get", "increment"} -> PyNone
      [] op \in {"set", "delete", "exists"} -> PyFalse
      [] op = "get_cache_stats" -> PyStr("disconnected")
      [] OTHER -> PyNone

\* C20: when the broker did not answer at construction, every later call
\* returns its absent / false / 'disconnected' value, none raises, and no
\* command is sent to the broker.
C20_GracefulDegradation ==
    ~cache_ping => /\ ~cache_touched
                   /\ ~cache_call.raised
                   /\ cache_call.returned = Degraded(cache_call.op)
                   /\ \A k \in CacheKeys : cache_store[k] = << >>

\* Calls were made on a service built without the broker, the last one a set
\* while the broker is back.
C20_Witness ==
    /\ ~cache_ping /\ cache_writes = 2
    /\ cache_call.op = "set" /\ cache_call.broker_ok /\ cache_call.key = "k2"
    /\ cache_call.returned = PyFalse
    /\ cache_last["k1"].op = "increment" /\ cache_last["k2"].op = "set"

-----------------------------------------------------------------------------
\* Everything modelled before the later components is at rest.
CoreIdle ==
    /\ RateIdle /\ rl_limit = 1
    /\ AuthIdle
    /\ SessIdle
    /\ AgentIdle
    /\ ChatIdle
    /\ tq_enabled = TRUE /\ QueueIdle
    /\ BusIdle
    /\ StreamIdle
    /\ CacheIdle

CoreFrame ==
    UNCHANGED <<rateVars, authVars, sessVars, agentVars, chatVars, queueVars, busVars, streamVars,
                cacheVars>>

-----------------------------------------------------------------------------
\* Event serialisation: event_bus/schema.py, one event taken through to_json
\* and from_json.

EventPayloads ==
    {<<"dict", "a">>, <<"dict_list", "a">>, <<"dict_tuple", "a">>,
     <<"dict_datetime", "12:00:01">>, <<"dict_str", isoformat(<<"datetime", "12:00:01">>)>>}

\* The events built by the callers.
EventInputs ==
    { Event(event_id, session_id, timestamp, type, payload) :
        event_id \in {"e1", "e2"}, session_id \in BusSessions, timestamp \in Datetimes,
        type \in {"custom", "agent_message_delta"}, payload \in EventPayloads }

\* event.to_json()
EvToJson ==
    /\ ev_pc = "built"
    /\ ev_json' = to_json(ev_event)
    /\ ev_pc' = "dumped"
    /\ UNCHANGED <<ev_event, ev_back>>

\* Event.from_json(json_str)
EvFromJson ==
    /\ ev_pc = "dumped"
    /\ ev_back' = from_json(ev_json)
    /\ ev_pc' = "loaded"
    /\ UNCHANGED <<ev_event, ev_json>>

InitEvent ==
    /\ CoreIdle
    /\ BudgetIdle
    /\ HealthIdle
    /\ MonitorIdle
    /\ ReviewIdle
    /\ EvalIdle
    /\ PubsubIdle
    /\ MetricsIdle
    /\ TurnIdle
    /\ ev_pc = "built"
    /\ ev_event \in EventInputs
    /\ ev_json = NoJson
    /\ ev_back = NoEvent

EventFrame == CoreFrame /\ UNCHANGED <<monitorVars, reviewVars, evalVars, pubsubVars, metricsVars, turnVars, healthVars, budgetVars>>

NextEvent ==
    \/ EvToJson /\ EventFrame
    \/ EvFromJson /\ EventFrame

SpecEvent == InitEvent /\ [][NextEvent]_vars

\* The payload holds JSON values only.
JsonPayload(payload) == payload[1] \in {"dict", "dict_list", "dict_str"}

-----------------------------------------------------------------------------
\* Infrastructure monitor: agents/infrastructure_monitor/agent.py
\* (monitor_services) with tools.py and services/n8n_service.py.
\*
\* percent_used is a float rounded to two decimals; it is kept in hundredths
\* of a percent. A check that failed returns {"error": ...}, in which
\* "running" and "percent_used" are absent.

WARNING_ABOVE == 75
CRITICAL_ABOVE == 90

Hundredths(percent) == percent * 100

PercentsUsed == {<< >>, <<0>>, <<5000>>, <<7500>>, <<7501>>, <<9000>>, <<9001>>, <<10000>>}
RunningCounts == {<< >>, <<0>>, <<1>>, <<2>>}

\* status.get(key, 0)
GetOrZero(value) == IF value = << >> THEN 0 ELSE value[1]

\* The thresholds taken with >= instead of >.
usage_status_inclusive(percent_used) ==
    IF percent_used >= Hundredths(CRITICAL_ABOVE) THEN "critical"
    ELSE IF percent_used >= Hundredths(WARNING_ABOVE) THEN "warning"
    ELSE "healthy"

\* "critical" if percent_used > 90 else "warning" if percent_used > 75 else "healthy"
usage_status(percent_used) ==
    IF percent_used > Hundredths(CRITICAL_ABOVE) THEN "critical"
    ELSE IF percent_used > Hundredths(WARNING_ABOVE) THEN "warning"
    ELSE "healthy"

\* "healthy" if running > 0 else "warning"
docker_status_of(running) == IF running > 0 THEN "healthy" ELSE "warning"

Metric(service_name, metric_value, status) ==
    [service_name |-> service_name, metric_value |-> metric_value, status |-> status]

\* The list `metrics`
build_metrics(checks) ==
    <<Metric("docker", GetOrZero(checks.docker), docker_status_of(GetOrZero(checks.docker))),
      Metric("disk", GetOrZero(checks.disk), usage_status(GetOrZero(checks.disk))),
      Metric("memory", GetOrZero(checks.memory), usage_status(GetOrZero(checks.memory)))>>

\* critical_metrics, as the services named in the alert
critical_metrics(metrics) ==
    { metrics[i].service_name : i \in { j \in 1 .. Len(metrics) : metrics[j].status = "critical" } }

\* An alert sent although nothing is critical.
alert_due_always(metrics) == TRUE

\* "if critical_metrics:"
alert_due(metrics) == critical_metrics(metrics) # {}

Inserted == Len(SelectSeq(mon_log, LAMBDA e : e[1] = "insert"))

\* The four checks run and the metric records are built.
MonCheck(docker, disk, memory) ==
    /\ mon_pc = "idle"
    /\ mon_checks' = [docker |-> docker, disk |-> disk, memory |-> memory]
    /\ mon_metrics' = build_metrics(mon_checks')
    /\ mon_pc' = "insert"
    /\ UNCHANGED <<mon_log, mon_result>>

\* One turn of "for metric in metrics: ...insert(metric).execute()"; an
\* exception ends the loop and goes to the except clause.
MonInsert(ok) ==
    /\ mon_pc = "insert"
    /\ IF ok
         THEN /\ mon_log' = Append(mon_log, <<"insert", mon_metrics[Inserted + 1].service_name,
                                              mon_metrics[Inserted + 1].status>>)
              /\ mon_pc' = IF Inserted + 1 = Len(mon_metrics) THEN "alert" ELSE "insert"
         ELSE /\ mon_pc' = "failed"
              /\ UNCHANGED mon_log
    /\ UNCHANGED <<mon_checks, mon_metrics, mon_result>>

\* "if critical_metrics: await n8n_service.send_alert(severity="critical")":
\* the POST is made; when it fails trigger_webhook logs and returns False.
MonAlert(ok) ==
    /\ mon_pc = "alert"
    /\ mon_log' = IF alert_due(mon_metrics)
                    THEN Append(mon_log, <<"alert", "critical", IF ok THEN "posted" ELSE "failed">>)
                    ELSE mon_log
    /\ mon_pc' = "status"
    /\ UNCHANGED <<mon_checks, mon_metrics, mon_result>>

\* await self.update_status(status="running"): the upsert, whose failure is
\* logged and swallowed; then the result is returned.
MonStatus(ok) ==
    /\ mon_pc = "status"
    /\ mon_log' = Append(mon_log, <<"status", "running", IF ok THEN "upserted" ELSE "failed">>)
    /\ mon_pc' = "done"
    /\ mon_result' = "success"
    /\ UNCHANGED <<mon_checks, mon_metrics>>

\* except Exception: update_status(status="error"), then re-raise.
MonFail(ok) ==
    /\ mon_pc = "failed"
    /\ mon_log' = Append(mon_log, <<"status", "error", IF ok THEN "upserted" ELSE "failed">>)
    /\ mon_pc' = "done"
    /\ mon_result' = "raised"
    /\ UNCHANGED <<mon_checks, mon_metrics>>

InitMonitor ==
    /\ CoreIdle
    /\ BudgetIdle
    /\ HealthIdle
    /\ EventIdle
    /\ MonitorIdle
    /\ ReviewIdle
    /\ EvalIdle
    /\ PubsubIdle
    /\ MetricsIdle
    /\ TurnIdle

MonitorFrame == CoreFrame /\ UNCHANGED <<eventVars, reviewVars, evalVars, pubsubVars, metricsVars, turnVars, healthVars, budgetVars>>

NextMonitor ==
    \/ (\E docker \in RunningCounts, disk \in PercentsUsed, memory \in PercentsUsed :
           MonCheck(docker, disk, memory)) /\ MonitorFrame
    \/ (\E ok \in BOOLEAN : MonInsert(ok)) /\ MonitorFrame
    \/ (\E ok \in BOOLEAN : MonAlert(ok)) /\ MonitorFrame
    \/ (\E ok \in BOOLEAN : MonStatus(ok)) /\ MonitorFrame
    \/ (\E ok \in BOOLEAN : MonFail(ok)) /\ MonitorFrame

SpecMonitor == InitMonitor /\ [][NextMonitor]_vars

\* C22: with the metric records built, for disk and for memory the status is
\* critical iff percent_used > 90, warning iff 75 < percent_used <= 90 and
\* healthy iff percent_used <= 75; for docker it is healthy iff the running
\* count is > 0 and warning otherwise.
C22_SeverityMapping ==
    mon_pc # "idle"
    => /\ \A i \in {2, 3} :
            LET p == GetOrZero(IF i = 2 THEN mon_checks.disk ELSE mon_checks.memory)
                s == mon_metrics[i].status
            IN  /\ (s = "critical") <=> (p > 9000)
                /\ (s = "warning") <=> (7500 < p /\ p <= 9000)
                /\ (s = "healthy") <=> (p <= 7500)
       /\ (mon_metrics[1].status = "healthy") <=> (GetOrZero(mon_checks.docker) > 0)
       /\ (mon_metrics[1].status # "healthy") <=> (mon_metrics[1].status = "warning")

\* Disk at exactly 90 percent, memory just above it, no container running.
C22_Witness ==
    /\ mon_pc = "done" /\ mon_result = "success"
    /\ mon_checks.disk = <<9000>> /\ mon_metrics[2].status = "warning"
    /\ mon_checks.memory = <<9001>> /\ mon_metrics[3].status = "critical"
    /\ mon_checks.docker = <<0>> /\ mon_metrics[1].status = "warning"

AlertAt == CHOOSE i \in 1 .. Len(mon_log) : mon_log[i][1] = "alert"
AlertSent == \E i \in 1 .. Len(mon_log) : mon_log[i][1] = "alert"
SomeCritical == \E i \in 1 .. Len(mon_metrics) : mon_metrics[i].status = "critical"
PassOver == mon_pc = "done"

\* C28 as stated: in every pass an alert is sent iff one of the three metric
\* records is critical, after the three inserts and before the status upsert.
C28_ProtocolAsStated ==
    PassOver
    => /\ AlertSent <=> SomeCritical
       /\ AlertSent => /\ AlertAt = 4
                       /\ mon_log[AlertAt + 1][1] = "status"
                       /\ mon_log[AlertAt + 1][2] = "running"

\* C28: in every pass that persists its three metric records, send_alert is
\* called with severity critical iff one of the records is critical, after the
\* three inserts and before the upsert of status 'running' is attempted; a
\* pass in which an insert raises calls no alert, and at no point of a pass
\* is there more than one alert.
C28_MonitorProtocol ==
    /\ AlertSent => /\ SomeCritical
                    /\ AlertAt = 4
                    /\ \A i \in 1 .. 3 : mon_log[i] = <<"insert", mon_metrics[i].service_name,
                                                        mon_metrics[i].status>>
                    /\ mon_log[AlertAt][2] = "critical"
                    /\ \A i \in 1 .. Len(mon_log) : mon_log[i][1] = "alert" => i = AlertAt
                    /\ \A i \in 1 .. Len(mon_log) : mon_log[i][1] = "status" => i = AlertAt + 1
    /\ (PassOver /\ mon_result = "success") => (AlertSent <=> SomeCritical)
    /\ (PassOver /\ mon_result = "success")
          => /\ Inserted = 3
             /\ mon_log[Len(mon_log)][1] = "status" /\ mon_log[Len(mon_log)][2] = "running"
    /\ (PassOver /\ mon_result = "raised")
          => /\ ~AlertSent /\ Inserted < 3
             /\ mon_log[Len(mon_log)][1] = "status" /\ mon_log[Len(mon_log)][2] = "error"

\* A pass with a critical disk has ended: three inserts, the alert, the upsert.
C28_Witness ==
    /\ PassOver /\ mon_result = "success"
    /\ mon_metrics[2].status = "critical" /\ mon_metrics[3].status = "healthy"
    /\ Len(mon_log) = 5
    /\ mon_log[4] = <<"alert", "critical", "posted">>
    /\ mon_log[5] = <<"status", "running", "upserted">>

-----------------------------------------------------------------------------
\* Code review: workflows/review_workflow.py and
\* agents/code_reviewer/agent.py (review_code).
\*
\* A node returns a partial state. The graph merges it into the state: a key
\* annotated with operator.add gets old + new, any other key is replaced.

Codes == {"c1", "c2", "c3"}

\* A result entry already in a list of the state the workflow is invoked with.
EarlierResult == [step |-> "earlier", status |-> "completed", findings |-> <<"f1">>]

InitialLists == {<< >>, <<EarlierResult>>}

ReviewOrder == <<"static_analysis", "security_scan", "best_practices", "generate_report">>

ResultKey == [static_analysis |-> "static_analysis_result",
              security_scan |-> "security_scan_result",
              best_practices |-> "best_practices_result"]

\* The result a placeholder stage builds.
stage_result(step) == [step |-> step, status |-> "completed", findings |-> << >>]

\* A reducer that replaces the list.
reduce_replace(old, update) == update

\* operator.add on two lists
reduce_add(old, update) == old \o update

\* generate_report_node: the three numbers and the closing line of the report
generate_report(state) ==
    [static_analysis |-> Len(state.static_analysis_result),
     security_scan |-> Len(state.security_scan_result),
     best_practices |-> Len(state.best_practices_result),
     closing |-> "Review completed successfully."]

\* The edges of the graph.
next_stage(step) ==
    CASE step = "static_analysis" -> "security_scan"
      [] step = "security_scan" -> "best_practices"
      [] step = "best_practices" -> "generate_report"
      [] step = "generate_report" -> "END"

InputState(code, s1, s2, s3) ==
    [code |-> code, static_analysis_result |-> s1, security_scan_result |-> s2,
     best_practices_result |-> s3, final_report |-> NoReport, errors |-> << >>]

\* review_workflow.ainvoke(state): review_code passes the code with empty
\* lists, another caller any state. The lists of the input are merged into
\* the empty channels with the reducer.
WfInvoke(caller, code, s1, s2, s3) ==
    /\ wf_pc = "idle"
    /\ caller = "review_code" => (s1 = << >> /\ s2 = << >> /\ s3 = << >>)
    /\ wf_caller' = caller
    /\ wf_input' = InputState(code, s1, s2, s3)
    /\ wf_state' = InputState(code, reduce_add(<< >>, s1), reduce_add(<< >>, s2),
                              reduce_add(<< >>, s3))
    /\ wf_pc' = "static_analysis"
    /\ UNCHANGED <<wf_trace, wf_result>>

\* One of the three placeholder stages runs and its update is merged.
WfStage ==
    /\ wf_pc \in {"static_analysis", "security_scan", "best_practices"}
    /\ wf_state' = [wf_state EXCEPT ![ResultKey[wf_pc]] = reduce_add(@, <<stage_result(wf_pc)>>)]
    /\ wf_trace' = Append(wf_trace, wf_pc)
    /\ wf_pc' = next_stage(wf_pc)
    /\ UNCHANGED <<wf_caller, wf_input, wf_result>>

\* generate_report runs and final_report is replaced.
WfReport ==
    /\ wf_pc = "generate_report"
    /\ wf_state' = [wf_state EXCEPT !.final_report = generate_report(wf_state)]
    /\ wf_trace' = Append(wf_trace, wf_pc)
    /\ wf_pc' = next_stage(wf_pc)
    /\ UNCHANGED <<wf_caller, wf_input, wf_result>>

\* The workflow is over: ainvoke returns the state; review_code inserts the
\* code_reviews row and returns the state, or logs and re-raises when the
\* insert raises.
WfReturn(ok) ==
    /\ wf_pc = "END"
    /\ wf_pc' = "done"
    /\ wf_result' = IF wf_caller = "review_code" /\ ~ok THEN "raised" ELSE "returned"
    /\ UNCHANGED <<wf_caller, wf_input, wf_state, wf_trace>>

InitReview ==
    /\ CoreIdle
    /\ BudgetIdle
    /\ HealthIdle
    /\ EventIdle
    /\ MonitorIdle
    /\ ReviewIdle
    /\ EvalIdle
    /\ PubsubIdle
    /\ MetricsIdle
    /\ TurnIdle

ReviewFrame == CoreFrame /\ UNCHANGED <<eventVars, monitorVars, evalVars, pubsubVars, metricsVars, turnVars, healthVars, budgetVars>>

NextReview ==
    \/ (\E caller \in {"review_code", "direct"}, code \in Codes,
           s1 \in InitialLists, s2 \in InitialLists, s3 \in InitialLists :
           WfInvoke(caller, code, s1, s2, s3)) /\ ReviewFrame
    \/ WfStage /\ ReviewFrame
    \/ WfReport /\ ReviewFrame
    \/ (\E ok \in BOOLEAN : WfReturn(ok)) /\ ReviewFrame

SpecReview == InitReview /\ [][NextReview]_vars

WorkflowOver == wf_pc \in {"END", "done"}

\* C23: the stages run in the order static_analysis, security_scan,
\* best_practices, generate_report, each once, and the workflow is then over;
\* at the end each result list is the list of the input followed by one entry
\* tagged with its stage, and the code is the code of the input.
C23_ReviewOrdering ==
    /\ Len(wf_trace) <= Len(ReviewOrder)
    /\ wf_trace = SubSeq(ReviewOrder, 1, Len(wf_trace))
    /\ wf_pc \in {"static_analysis", "security_scan", "best_practices", "generate_report"}
          => wf_pc = ReviewOrder[Len(wf_trace) + 1]
    /\ wf_state.code = wf_input.code
    /\ WorkflowOver
          => /\ wf_trace = ReviewOrder
             /\ \A step \in DOMAIN ResultKey :
                   wf_state[ResultKey[step]] =
                      wf_input[ResultKey[step]] \o <<stage_result(step)>>

\* A workflow invoked on lists that already hold a result is over.
C23_Witness ==
    /\ wf_pc = "done" /\ wf_caller = "direct" /\ wf_state.code = "c2"
    /\ wf_input.security_scan_result = <<EarlierResult>>
    /\ wf_input.static_analysis_result = << >>
    /\ Len(wf_state.security_scan_result) = 2
    /\ wf_trace = ReviewOrder

\* The findings recorded by a stage in its result entry.
FindingsOf(step) ==
    LET list == wf_state[ResultKey[step]]
        own == { i \in 1 .. Len(list) : list[i].step = step }
    IN  IF own = {} THEN 0 ELSE Len(list[CHOOSE i \in own : TRUE].findings)

\* C30: in the final report each of the three counts is the number of
\* findings recorded by the corresponding stage, and the report ends with the
\* line 'Review completed successfully.'.
C30_ReportCounts ==
    WorkflowOver
    => /\ \A step \in DOMAIN ResultKey : wf_state.final_report[step] = FindingsOf(step)
       /\ wf_state.final_report.closing = "Review completed successfully."

\* What does hold: each count is the length of the corresponding result list,
\* and the closing line is the fixed one.
C30_ReportCountsEntries ==
    WorkflowOver
    => /\ \A step \in DOMAIN ResultKey :
             wf_state.final_report[step] = Len(wf_input[ResultKey[step]]) + 1
       /\ wf_state.final_report.closing = "Review completed successfully."

-----------------------------------------------------------------------------
\* The evaluation harness: tests/eval/agent_evaluator.py.
\*
\* A text is the sequence of its whitespace-separated words. A Python value
\* is a pair <<kind, payload>>.

EvalWords == {"disk", "Disk", "ok", "full"}

\* str.lower() on one word.
lower(word) == IF word = "Disk" THEN "disk" ELSE word

EvalTexts == {<<"disk", "ok">>, <<"Disk">>, <<"full">>, <<"ok", "disk", "full">>}

\* set(text.lower().split())
word_set(text) == {lower(text[i]) : i \in 1 .. Len(text)}

RECURSIVE chars(_)
chars(text) == IF text = << >> THEN 0 ELSE Len(Head(text)) + chars(Tail(text))

\* len(text): the characters of the words and one separator between two words.
str_len(text) == IF text = << >> THEN 0 ELSE chars(text) + Len(text) - 1

\* The kinds of agent object: BaseADKAgent and its subclasses, whose execute is
\* a coroutine function, and an object whose execute is a plain method.
AgentKinds == {"BaseADKAgent", "plain"}

\* What agent.execute(question) does, called without await. A coroutine
\* function returns a coroutine object at once, whatever its body would do;
\* the text is the answer the coroutine would give if it were awaited.
ExecuteOutcomes(kind) ==
    IF kind = "BaseADKAgent"
    THEN {<<"coroutine", text>> : text \in EvalTexts}
    ELSE {<<"str", text>> : text \in EvalTexts} \cup {<<"raise", "">>, <<"raise", "agent down">>}

\* A test case: expected_answer and ground_truth are << >> when None.
EvalTestCases ==
    [name : {"t"}, question : {<<"disk">>},
     expected_answer : {<< >>, <<"disk", "ok">>, <<"full">>},
     ground_truth : {<< >>, <<"ok">>}]

\* The metrics _evaluate_with_ragas can return: the four scores in tenths, or
\* nothing when the metric runtime raised.
RagasOutcomes ==
    {<<"metrics", [faithfulness |-> f, answer_relevancy |-> r]>> : f \in {6, 7}, r \in {6, 7}}
        \cup {<<"metrics", << >>>>}

\* similarity = overlap / len(expected_words), compared with 0.5.
similarity_passes(overlap, expected_count) == 2 * overlap >= expected_count

\* _basic_evaluation: a raise (len() of a coroutine object is a TypeError) or the metrics.
\* similarity is kept as the pair <<overlap, len(expected_words)>>.
basic_evaluation(question, answer, expected) ==
    IF answer[1] # "str"
    THEN <<"raise", "object of type 'coroutine' has no len()">>
    ELSE <<"metrics",
           [answer_length |-> str_len(answer[2]), question_length |-> str_len(question),
            similarity |-> IF expected = << >> THEN << >>
                           ELSE <<Cardinality(word_set(expected) \cap word_set(answer[2])),
                                  Cardinality(word_set(expected))>>]>>

\* _check_pass_criteria on the metrics of either evaluation.
check_pass_criteria(metrics) ==
    IF metrics = << >> THEN FALSE
    ELSE IF "faithfulness" \in DOMAIN metrics
         THEN metrics.faithfulness >= 7 /\ metrics.answer_relevancy >= 7
         ELSE IF metrics.similarity = << >> THEN FALSE
              ELSE similarity_passes(metrics.similarity[1], metrics.similarity[2])

EvaluationResult(agent_name, test_case_name, metrics, passed, error) ==
    [agent_name |-> agent_name, test_case_name |-> test_case_name, metrics |-> metrics,
     passed |-> passed, error |-> error]

\* One pass of the loop body for a case, given what execute and the metric
\* runtime did: the result appended. error is << >> when None.
evaluate_case(agent, ragas, case, outcome, ragas_outcome) ==
    LET scored == IF outcome[1] = "raise" THEN outcome
                  ELSE IF ragas /\ case.ground_truth # << >> THEN ragas_outcome
                  ELSE basic_evaluation(case.question, outcome,
                                        IF case.expected_answer = << >> THEN << >>
                                        ELSE case.expected_answer)
    IN  IF scored[1] = "raise"
        THEN EvaluationResult(agent, case.name, << >>, FALSE, <<scored[2]>>)
        ELSE EvaluationResult(agent, case.name, scored[2], check_pass_criteria(scored[2]), << >>)

\* evaluate_agent is called; with no test cases it returns [] at once.
EvalStart(agent, ragas, cases) ==
    /\ eval_pc = "idle"
    /\ eval_agent' = agent
    /\ eval_ragas' = ragas
    /\ eval_cases' = cases
    /\ eval_pc' = IF cases = << >> THEN "done" ELSE "loop"
    /\ UNCHANGED <<eval_i, eval_answers, eval_results>>

\* One iteration of the for loop, the except clause included.
EvalCase(outcome, ragas_outcome) ==
    /\ eval_pc = "loop"
    /\ eval_i < Len(eval_cases)
    /\ outcome \in ExecuteOutcomes(eval_agent)
    /\ eval_i' = eval_i + 1
    /\ eval_answers' = Append(eval_answers, outcome)
    /\ eval_results' = Append(eval_results,
                              evaluate_case(eval_agent, eval_ragas, eval_cases[eval_i + 1],
                                            outcome, ragas_outcome))
    /\ UNCHANGED <<eval_pc, eval_agent, eval_ragas, eval_cases>>

\* The loop is over: return results.
EvalReturn ==
    /\ eval_pc = "loop"
    /\ eval_i = Len(eval_cases)
    /\ eval_pc' = "done"
    /\ UNCHANGED <<eval_agent, eval_ragas, eval_cases, eval_i, eval_answers, eval_results>>

EvalCaseLists ==
    {<< >>} \cup {<<c>> : c \in EvalTestCases} \cup
    {<<c1, c2>> : c1 \in EvalTestCases, c2 \in {c \in EvalTestCases : c.ground_truth = << >>}}

InitEval ==
    /\ CoreIdle
    /\ LateIdle

EvalFrame == CoreFrame /\ UNCHANGED <<eventVars, monitorVars, reviewVars, pubsubVars, metricsVars, turnVars, healthVars, budgetVars>>

NextEval ==
    \/ (\E agent \in AgentKinds, ragas \in BOOLEAN, cases \in EvalCaseLists :
           EvalStart(agent, ragas, cases)) /\ EvalFrame
    \/ (\E outcome \in UNION {ExecuteOutcomes(k) : k \in AgentKinds}, ragas_outcome \in RagasOutcomes :
           EvalCase(outcome, ragas_outcome)) /\ EvalFrame
    \/ EvalReturn /\ EvalFrame

SpecEval == InitEval /\ [][NextEval]_vars

\* The answer of the agent in a finished case: the text execute returned, or
\* the text its coroutine would have given.
AnswerOf(i) == eval_answers[i][2]

\* The case was scored by the basic evaluation and has an expected answer.
BasicCase(i) ==
    /\ eval_answers[i][1] # "raise"
    /\ ~(eval_ragas /\ eval_cases[i].ground_truth # << >>)
    /\ eval_cases[i].expected_answer # << >>

SharedWords(i) == word_set(eval_cases[i].expected_answer) \cap word_set(AnswerOf(i))

\* C24 as stated: a basic-evaluation case whose answer has at least half of
\* the expected answer's distinct words is passed and one with none of them is
\* failed; a case whose evaluation raises is failed with a non-empty error,
\* and the remaining cases are still evaluated.
C24_ThresholdAsStated ==
    /\ \A i \in 1 .. Len(eval_results) :
          /\ BasicCase(i) =>
                /\ 2 * Cardinality(SharedWords(i)) >=
                       Cardinality(word_set(eval_cases[i].expected_answer))
                     => eval_results[i].passed
                /\ SharedWords(i) = {} => ~eval_results[i].passed
          /\ eval_answers[i][1] = "raise" =>
                /\ ~eval_results[i].passed
                /\ eval_results[i].error # << >>
                /\ eval_results[i].error # <<"">>
    /\ eval_pc = "done" => Len(eval_results) = Len(eval_cases)

\* The part of C24 that the code keeps for every agent: a case whose answer
\* shares none of the expected words is failed, every case that raised is
\* failed and carries an error, and every case gets a result.
C24_FailuresRecorded ==
    /\ \A i \in 1 .. Len(eval_results) :
          /\ BasicCase(i) /\ SharedWords(i) = {} => ~eval_results[i].passed
          /\ eval_results[i].error # << >> =>
                ~eval_results[i].passed /\ eval_results[i].metrics = << >>
    /\ eval_pc = "done" => Len(eval_results) = Len(eval_cases)

\* The thresholding on an answer that is a text: passed exactly when at least
\* half of the expected words are shared.
C24_ThresholdOnText ==
    \A i \in 1 .. Len(eval_results) :
        BasicCase(i) /\ eval_answers[i][1] = "str" =>
            (eval_results[i].passed <=>
                2 * Cardinality(SharedWords(i)) >=
                    Cardinality(word_set(eval_cases[i].expected_answer)))

\* A BaseADKAgent whose answer would hold every expected word was evaluated.
C24_CoroutineCase ==
    /\ eval_pc = "done"
    /\ eval_agent = "BaseADKAgent"
    /\ \E i \in 1 .. Len(eval_results) :
          /\ BasicCase(i)
          /\ SharedWords(i) = word_set(eval_cases[i].expected_answer)
          /\ ~eval_results[i].passed

-----------------------------------------------------------------------------
\* MetricsMiddleware.dispatch: middleware/metrics.py.

\* What "await call_next(request)" can do: return a response, raise an
\* Exception, or raise a BaseException that is no Exception
\* (asyncio.CancelledError when the request's task is cancelled).
CallNextOutcomes ==
    {<<"response", s>> : s \in {200, 404}} \cup {<<"Exception", 0>>, <<"CancelledError", 0>>}

\* The local status_code when the finally block starts: << >> when no
\* statement has assigned it.
status_code_at_finally(outcome) ==
    CASE outcome[1] = "response" -> <<outcome[2]>>
      [] outcome[1] = "Exception" -> <<HTTP_SERVER_ERROR>>
      [] OTHER -> << >>

\* How dispatch ends: the response is returned, the exception of call_next
\* propagates, or the finally block itself raises (a read of the unassigned
\* status_code is an UnboundLocalError, which replaces the exception in flight).
dispatch_result(outcome) ==
    CASE status_code_at_finally(outcome) = << >> -> [kind |-> "UnboundLocalError", status |-> 0]
      [] outcome[1] = "response" -> [kind |-> "returned", status |-> outcome[2]]
      [] OTHER -> [kind |-> outcome[1], status |-> 0]

\* dispatch up to "await call_next(request)".
MwEnter(r, method, endpoint) ==
    /\ mm_pc[r] = "idle"
    /\ mm_pc' = [mm_pc EXCEPT ![r] = "call_next"]
    /\ mm_req' = [mm_req EXCEPT ![r] = [method |-> method, endpoint |-> endpoint]]
    /\ UNCHANGED <<mm_counter, mm_hist, mm_result, mm_trace>>

\* The rest of the chain is over: the except clause, the finally block, and
\* the return. The labels(...) call of the counter evaluates status_code
\* first; when that raises, neither metric is touched.
MwFinish(r, outcome) ==
    /\ mm_pc[r] = "call_next"
    /\ LET status == status_code_at_finally(outcome)
           method == mm_req[r].method
           endpoint == mm_req[r].endpoint
       IN  IF status = << >>
           THEN UNCHANGED <<mm_counter, mm_hist, mm_trace>>
           ELSE /\ mm_counter' = [mm_counter EXCEPT ![<<method, endpoint, status[1]>>] = @ + 1]
                /\ mm_hist' = [mm_hist EXCEPT ![<<method, endpoint>>] = @ + 1]
                /\ mm_trace' = [mm_trace EXCEPT ![r] = [incs |-> @.incs + 1, obs |-> @.obs + 1,
                                                         status |-> status]]
    /\ mm_result' = [mm_result EXCEPT ![r] = dispatch_result(outcome)]
    /\ mm_pc' = [mm_pc EXCEPT ![r] = "done"]
    /\ UNCHANGED mm_req

InitMetrics ==
    /\ CoreIdle
    /\ LateIdle

MetricsFrame == CoreFrame /\ UNCHANGED <<eventVars, monitorVars, reviewVars, evalVars, pubsubVars, turnVars, healthVars, budgetVars>>

NextMetrics ==
    \/ (\E r \in MwRequests, method \in MwMethods, endpoint \in MwEndpoints :
           MwEnter(r, method, endpoint)) /\ MetricsFrame
    \/ (\E r \in MwRequests, outcome \in CallNextOutcomes : MwFinish(r, outcome)) /\ MetricsFrame

SpecMetrics == InitMetrics /\ [][NextMetrics]_vars

\* C29 as stated: every request that entered the middleware and is over has
\* caused exactly one increment of http_requests_total and one duration
\* observation; a returned response is counted with its status, a raise with
\* 500, and the error of the chain still propagates.
C29_OneIncrementPerRequest ==
    \A r \in MwRequests :
        mm_pc[r] = "done" =>
            /\ mm_trace[r].incs = 1
            /\ mm_trace[r].obs = 1
            /\ mm_result[r].kind = "returned" => mm_trace[r].status = <<mm_result[r].status>>
            /\ mm_result[r].kind # "returned" =>
                   /\ mm_trace[r].status = <<HTTP_SERVER_ERROR>>
                   /\ mm_result[r].kind # "UnboundLocalError"

\* What the code keeps: a request whose chain returned or raised an Exception
\* is counted and observed once, with its status or 500, and the Exception
\* propagates; no request is counted twice, and the counter and the histogram
\* hold exactly what the requests caused.
C29_ReturnOrException ==
    /\ \A r \in MwRequests :
          /\ mm_trace[r].incs <= 1 /\ mm_trace[r].obs = mm_trace[r].incs
          /\ mm_pc[r] = "done" /\ mm_result[r].kind = "returned" =>
                mm_trace[r].incs = 1 /\ mm_trace[r].status = <<mm_result[r].status>>
          /\ mm_pc[r] = "done" /\ mm_result[r].kind = "Exception" =>
                mm_trace[r].incs = 1 /\ mm_trace[r].status = <<HTTP_SERVER_ERROR>>
    /\ \A l \in DOMAIN mm_counter :
          mm_counter[l] = Cardinality({r \in MwRequests :
              mm_trace[r].incs = 1 /\ <<mm_req[r].method, mm_req[r].endpoint, mm_trace[r].status[1]>> = l})

-----------------------------------------------------------------------------
\* Chat turns of one session in one server process: api/routes/chat.py (chat),
\* agents/base_agent.py (execute under tenacity) and
\* services/session_service.py (add_event).
\*
\* The handlers are coroutines of one event loop: a handler runs until it
\* awaits something that is not ready, and no other handler runs meanwhile.
\* The store client is the blocking one, so get_session, create_session and
\* add_event return without giving the loop a turn; the only await of chat
\* that suspends is the backoff sleep of tenacity between two attempts of
\* execute. An action below is one such run of a handler.

TnSession == "s1"

\* Mutant of chat_call_kind: the route passes what the signature accepts.
chat_call_kind_bound == "positional"

\* "agent.execute(request.message, session_id=session_id, user_id=user_id)"
chat_call_kind == "with_user_id"

\* add_event on the store: the session's events and the history, as left by
\* the call (the get, the update and the insert may each fail).
add_event_store(sessions, history, session_id, event, okGet, okUpdate, okInsert) ==
    LET updated == get_session(sessions, session_id, okGet) # <<>> /\ okUpdate
    IN  [sessions |-> IF updated THEN [sessions EXCEPT ![session_id].events = Append(@, event)]
                      ELSE sessions,
         history |-> IF updated /\ okInsert THEN Append(history, HistoryRow(session_id, event))
                     ELSE history]

\* One attempt of execute made by the chat route and what follows without a
\* suspension: a call that does not bind raises TypeError, a bound one runs
\* the agent and saves the turn; a failed attempt is retried after a sleep
\* unless tenacity stops (RetryError leaves the route: 500); after a
\* successful execute the route saves the turn itself and answers 200.
TnAttempt(r, req, attempt, sessions, okRun, okGet, okUpdate, okInsert) ==
    LET succeeded == chat_call_kind # "with_user_id" /\ okRun
        byExecute == add_event_store(sessions, ss_history, TnSession,
                                     AgentEvent(req.message, Responses[attempt]),
                                     okGet, okUpdate, okInsert)
        byRoute == add_event_store(byExecute.sessions, byExecute.history, TnSession,
                                   ChatEvent(req, Responses[attempt]),
                                   okGet, okUpdate, okInsert)
    IN  /\ tn_attempt' = [tn_attempt EXCEPT ![r] = attempt]
        /\ IF succeeded
             THEN /\ ss_sessions' = byRoute.sessions
                  /\ ss_history' = byRoute.history
                  /\ tn_pc' = [tn_pc EXCEPT ![r] = "done"]
                  /\ tn_status' = [tn_status EXCEPT ![r] = HTTP_OK]
             ELSE IF stop_after_attempt(attempt)
             THEN /\ ss_sessions' = sessions
                  /\ UNCHANGED ss_history
                  /\ tn_pc' = [tn_pc EXCEPT ![r] = "done"]
                  /\ tn_status' = [tn_status EXCEPT ![r] = HTTP_SERVER_ERROR]
             ELSE /\ ss_sessions' = sessions
                  /\ UNCHANGED ss_history
                  /\ tn_pc' = [tn_pc EXCEPT ![r] = "sleeping"]
                  /\ UNCHANGED tn_status

\* A request for the session arrives and chat runs up to its first
\* suspension: the session is fetched or created (a failed create leaves the
\* route: 500), then the monitor agent is executed or the message is echoed,
\* saved and answered.
TnArrive(r, agent_name, okCreate, okRun, okGet, okUpdate, okInsert) ==
    /\ tn_pc[r] = "waiting"
    /\ LET req == [message |-> Messages[Len(tn_arrived) + 1], agent_name |-> agent_name]
           exists == get_session(ss_sessions, TnSession, okGet) # <<>>
           created == ~exists /\ okCreate /\ InsertAllowed(ss_sessions, TnSession)
           sessions == IF created
                       THEN PutSession(ss_sessions, TnSession, NewSession(TnSession, "anonymous"))
                       ELSE ss_sessions
           saved == add_event_store(sessions, ss_history, TnSession,
                                    ChatEvent(req, Echo(req.message)), okGet, okUpdate, okInsert)
       IN  /\ tn_req' = [tn_req EXCEPT ![r] = req]
           /\ tn_arrived' = Append(tn_arrived, r)
           /\ IF ~exists /\ ~created
                THEN /\ tn_pc' = [tn_pc EXCEPT ![r] = "done"]
                     /\ tn_status' = [tn_status EXCEPT ![r] = HTTP_SERVER_ERROR]
                     /\ UNCHANGED <<ss_sessions, ss_history, tn_attempt>>
                ELSE IF OrElse(agent_name, INFRASTRUCTURE_MONITOR) = INFRASTRUCTURE_MONITOR
                THEN TnAttempt(r, req, 1, sessions, okRun, okGet, okUpdate, okInsert)
                ELSE /\ ss_sessions' = saved.sessions
                     /\ ss_history' = saved.history
                     /\ tn_pc' = [tn_pc EXCEPT ![r] = "done"]
                     /\ tn_status' = [tn_status EXCEPT ![r] = HTTP_OK]
                     /\ UNCHANGED tn_attempt

\* The backoff sleep of a request is over: its next attempt.
TnWake(r, okRun, okGet, okUpdate, okInsert) ==
    /\ tn_pc[r] = "sleeping"
    /\ TnAttempt(r, tn_req[r], tn_attempt[r] + 1, ss_sessions, okRun, okGet, okUpdate, okInsert)
    /\ UNCHANGED <<tn_req, tn_arrived>>

InitTurns ==
    /\ CoreIdle
    /\ LateIdle

TurnFrame ==
    UNCHANGED <<rateVars, authVars, ss_p, ss_hist, ss_started, agentVars, chatVars, queueVars,
                busVars, streamVars, cacheVars, eventVars, monitorVars, reviewVars, evalVars,
                pubsubVars, metricsVars, healthVars, budgetVars>>

NextTurns ==
    \/ (\E r \in TnRequests, agent_name \in {<<>>, <<"code_reviewer">>},
           okCreate, okRun, okGet, okUpdate, okInsert \in BOOLEAN :
           TnArrive(r, agent_name, okCreate, okRun, okGet, okUpdate, okInsert)) /\ TurnFrame
    \/ (\E r \in TnRequests, okRun, okGet, okUpdate, okInsert \in BOOLEAN :
           TnWake(r, okRun, okGet, okUpdate, okInsert)) /\ TurnFrame

SpecTurns == InitTurns /\ [][NextTurns]_vars

\* The place of a message in the order of arrival.
ArrivalOf(message) == CHOOSE n \in 1 .. Len(Messages) : Messages[n] = message

-----------------------------------------------------------------------------
\* Detailed health check: api/routes/health.py (detailed_health_check).
\*
\* services is a dict, here a function from the names probed so far to their
\* entries.

\* What a probe can do: answer 200, answer another status, or raise.
HttpProbeOutcomes == {<<"status", 200>>, <<"status", 500>>, <<"raise", "timeout">>}

\* r.ping() returns or raises.
RedisProbeOutcomes == {<<"status", 200>>, <<"raise", "refused">>}

\* The entry a probe leaves in services.
probe_entry(outcome) ==
    IF outcome = <<"status", 200>> THEN [status |-> "healthy", error |-> ""]
    ELSE IF outcome[1] = "status" THEN [status |-> "unhealthy", error |-> "Status code"]
    ELSE [status |-> "unhealthy", error |-> outcome[2]]

\* Mutant of degrades: every probe sets the overall status.
degrades_any(service) == TRUE

\* The probes whose failure sets health_status["status"] = "degraded": the
\* blocks of langfuse and n8n do not assign it.
degrades(service) == service \in {"redis", "supabase"}

\* One probe block: the entry is stored, the overall status is changed by a
\* failing probe of a service that degrades.
probe_block(health, service, outcome) ==
    [status |-> IF probe_entry(outcome).status = "unhealthy" /\ degrades(service)
                THEN "degraded" ELSE health.status,
     services |-> [s \in DOMAIN health.services \cup {service} |->
                     IF s = service THEN probe_entry(outcome) ELSE health.services[s]]]

HlProbe(service, outcome, next) ==
    /\ hl_pc = service
    /\ hl_probes' = [s \in DOMAIN hl_probes \cup {service} |->
                       IF s = service THEN outcome ELSE hl_probes[s]]
    /\ hl_health' = probe_block(hl_health, service, outcome)
    /\ hl_pc' = next
    /\ UNCHANGED <<hl_langfuse, hl_resp>>

\* The request arrives: health_status starts as healthy with no services.
HlStart(langfuse) ==
    /\ hl_pc = "idle"
    /\ hl_langfuse' = langfuse
    /\ hl_health' = [status |-> "healthy", services |-> << >>]
    /\ hl_pc' = "redis"
    /\ UNCHANGED <<hl_probes, hl_resp>>

HlRedis(outcome) == HlProbe("redis", outcome, "supabase")

HlSupabase(outcome) == HlProbe("supabase", outcome, IF hl_langfuse THEN "langfuse" ELSE "n8n")

HlLangfuse(outcome) == HlProbe("langfuse", outcome, "n8n")

HlN8n(outcome) == HlProbe("n8n", outcome, "answer")

\* Lines 92-95: HTTPException(503) when degraded, else the body with 200.
HlAnswer ==
    /\ hl_pc = "answer"
    /\ hl_resp' = IF hl_health.status = "degraded" THEN HTTP_UNAVAILABLE ELSE HTTP_OK
    /\ hl_pc' = "done"
    /\ UNCHANGED <<hl_langfuse, hl_probes, hl_health>>

InitHealth ==
    /\ CoreIdle
    /\ LateIdle

HealthFrame ==
    CoreFrame /\ UNCHANGED <<eventVars, monitorVars, reviewVars, evalVars, pubsubVars,
                             metricsVars, turnVars, budgetVars>>

NextHealth ==
    \/ (\E langfuse \in BOOLEAN : HlStart(langfuse)) /\ HealthFrame
    \/ (\E outcome \in RedisProbeOutcomes : HlRedis(outcome)) /\ HealthFrame
    \/ (\E outcome \in HttpProbeOutcomes : HlSupabase(outcome)) /\ HealthFrame
    \/ (\E outcome \in HttpProbeOutcomes : HlLangfuse(outcome)) /\ HealthFrame
    \/ (\E outcome \in HttpProbeOutcomes : HlN8n(outcome)) /\ HealthFrame
    \/ HlAnswer /\ HealthFrame

SpecHealth == InitHealth /\ [][NextHealth]_vars

\* Every probe made has its entry, unhealthy exactly when the probe failed.
ProbesRecorded ==
    /\ DOMAIN hl_health.services = DOMAIN hl_probes
    /\ \A s \in DOMAIN hl_probes :
          (hl_health.services[s].status = "unhealthy") <=> (hl_probes[s] # <<"status", 200>>)
          
Unhealthy(services) == {s \in DOMAIN hl_health.services : s \in services
                           /\ hl_health.services[s].status = "unhealthy"}

\* C32 as stated: a failing probe never fails the request and is recorded as
\* the unhealthy entry of its service; the answer is degraded with 503
\* exactly when some probed service is reported unhealthy, healthy with 200
\* otherwise.
C32_DegradedIffAnyUnhealthy ==
    /\ ProbesRecorded
    /\ hl_pc = "done" =>
          /\ (hl_health.status = "degraded") <=>
                (Unhealthy({"redis", "supabase", "langfuse", "n8n"}) # {})
          /\ hl_resp = IF hl_health.status = "degraded" THEN HTTP_UNAVAILABLE ELSE HTTP_OK
          /\ hl_health.status \in {"healthy", "degraded"}

\* C32, amended: the answer is degraded with 503 exactly when the broker or
\* the managed store is reported unhealthy; an unhealthy tracing collector or
\* automation engine is recorded and leaves the overall status alone.
C32_DegradedIffRequiredUnhealthy ==
    /\ ProbesRecorded
    /\ hl_pc = "done" =>
          /\ (hl_health.status = "degraded") <=> (Unhealthy({"redis", "supabase"}) # {})
          /\ hl_resp = IF hl_health.status = "degraded" THEN HTTP_UNAVAILABLE ELSE HTTP_OK
          /\ hl_health.status \in {"healthy", "degraded"}
          /\ {"redis", "supabase", "n8n"} \subseteq DOMAIN hl_health.services

\* Answered healthy with 200 although the probes of the collector and of the
\* automation engine failed.
C32_Witness ==
    /\ hl_pc = "done" /\ hl_resp = HTTP_OK
    /\ Unhealthy({"langfuse", "n8n"}) = {"langfuse", "n8n"}

-----------------------------------------------------------------------------
\* The rate limiter over several windows: middleware/rate_limit.py, with the
\* requests of the client counted per TickSeconds. WINDOW is two ticks, and any
\* WINDOW seconds lie within three neighbouring ticks: a client that sends no
\* more than the limit in three neighbouring ticks sends no more than the limit
\* in any WINDOW seconds, wherever the window starts.

\* The client sends a request: dispatch reads the counter.
BgRequest(h, c) ==
    /\ RLRead(h, c)
    /\ bg_cur' = bg_cur + 1
    /\ bg_within' = (bg_within /\ bg_old + bg_prev + bg_cur + 1 <= rl_limit)
    /\ UNCHANGED <<bg_old, bg_prev>>

BgIncrement(h) == RLIncrement(h) /\ UNCHANGED budgetVars

BgFinish(h) == RLFinish(h) /\ UNCHANGED budgetVars

\* No request is between the read and the increment: each request is handled
\* within the tick it arrives in.
Handled == \A h \in Handlers : rl_h[h].pc # "admit"

\* TickSeconds pass.
BgTick ==
    /\ Handled
    /\ RLTick
    /\ bg_old' = bg_prev
    /\ bg_prev' = bg_cur
    /\ bg_cur' = 0
    /\ UNCHANGED bg_within

\* TickSeconds pass while the broker holds no key and nothing is left to expire.
BgQuietTick ==
    /\ Handled
    /\ rl_store = << >>
    /\ \A c \in Clients : rl_sinceAdmit[c] = WINDOW
    /\ bg_old + bg_prev + bg_cur > 0
    /\ bg_old' = bg_prev
    /\ bg_prev' = bg_cur
    /\ bg_cur' = 0
    /\ UNCHANGED <<bg_within, rateVars>>

InitBudget ==
    /\ rl_limit \in Limits
    /\ RateIdle
    /\ AuthIdle
    /\ SessIdle
    /\ AgentIdle
    /\ RestIdle

BudgetFrame ==
    UNCHANGED <<authVars, sessVars, agentVars, chatVars, queueVars, busVars, streamVars, cacheVars,
                eventVars, monitorVars, reviewVars, evalVars, pubsubVars, metricsVars, turnVars,
                healthVars>>

NextBudget ==
    \/ (\E h \in Handlers, c \in Clients : BgRequest(h, c)) /\ BudgetFrame
    \/ (\E h \in Handlers : BgIncrement(h)) /\ BudgetFrame
    \/ (\E h \in Handlers : BgFinish(h)) /\ BudgetFrame
    \/ BgTick /\ BudgetFrame
    \/ BgQuietTick /\ BudgetFrame

SpecBudget == InitBudget /\ [][NextBudget]_vars

\* C34: a client that never sends more than the limit within any 60 seconds
\* is never rejected.
C34_WithinBudgetNeverRejected ==
    bg_within => \A h \in Handlers : ~(rl_h[h].pc = "done" /\ ~rl_h[h].passed)

\* What the counter does bound: a request is rejected only when the limit has
\* been admitted since the key was created, that is since the last pause of
\* WINDOW seconds without an admitted request.
C34_RejectedOnlyAtLimit ==
    \A h \in Handlers :
        (rl_h[h].pc = "done" /\ ~rl_h[h].passed) =>
            (rl_h[h].current # <<>> /\ rl_h[h].current[1] >= rl_limit)

-----------------------------------------------------------------------------
(***************************************************************************)
(* What a chat turn leaves in the store: api/routes/chat.py lines 52-77    *)
(***************************************************************************)

\* The session_history rows of the request's session that record its message.
HistoryEntries ==
    { i \in 1..Len(ss_history) : /\ ss_history[i].session_id = ch_sid
                                 /\ ss_history[i].user_message = ch_req.message }

\* The entries of the session's embedded events list that record its message.
EventEntries ==
    IF ch_sid \in DOMAIN ss_sessions
    THEN { i \in 1..Len(ss_sessions[ch_sid].events) :
             ss_sessions[ch_sid].events[i].user_message = ch_req.message }
    ELSE {}

\* C35: a chat turn that returns a response has added exactly one entry to
\* the session's history and exactly one to its events list; a turn that
\* fails has added none.
C35_OneEntryPerTurn ==
    ChatServed("chat") =>
        IF ch_resp.status = HTTP_OK
        THEN Cardinality(HistoryEntries) = 1 /\ Cardinality(EventEntries) = 1
        ELSE HistoryEntries = {} /\ EventEntries = {}

\* What the route does guarantee: at most one entry each, none for a turn
\* that fails, a history row only together with its events entry, and exactly
\* one of each when every store call of the turn succeeded.
C35_OneEntryWhenStoreAnswers ==
    ChatServed("chat") =>
        /\ Cardinality(EventEntries) <= 1
        /\ HistoryEntries \subseteq {Len(ss_history)}
        /\ HistoryEntries # {} => EventEntries # {}
        /\ ch_resp.status # HTTP_OK => (HistoryEntries = {} /\ EventEntries = {})
        /\ (ch_resp.status = HTTP_OK /\ "store" \notin ch_log)
           => (Cardinality(HistoryEntries) = 1 /\ Cardinality(EventEntries) = 1)

\* chat, lines 52-60: the agent whose execute produced the response text; no
\* agent runs for a name other than the monitor's, the route echoes the message.
Producer(req) == IF ForMonitor(req) THEN <<INFRASTRUCTURE_MONITOR>> ELSE << >>

\* The agent names stored with the recorded turn of the request.
StoredAgentNames ==
    { ss_history[i].agent_name : i \in HistoryEntries }
    \cup { ss_sessions[ch_sid].events[i].agent_name : i \in EventEntries }

\* C36: the agent_name a chat turn returns and stores is the name of the agent
\* that produced the response, infrastructure_monitor when none was named.
C36_NameOfProducer ==
    (ChatServed("chat") /\ ch_resp.status = HTTP_OK) =>
        /\ <<ch_resp.body[1].agent_name>> = Producer(ch_req)
        /\ \A name \in StoredAgentNames : <<name>> = Producer(ch_req)

\* What the route returns and stores: the name the request carries, whichever
\* code produced the text, and "default" for a request that carries none.
C36_NameOfRequest ==
    (ChatServed("chat") /\ ch_resp.status = HTTP_OK) =>
        /\ ch_resp.body[1].agent_name = OrElse(ch_req.agent_name, "default")
        /\ StoredAgentNames \subseteq {OrElse(ch_req.agent_name, "default")}
        /\ ch_resp.body[1].response = Echo(ch_req.message)
        /\ ~ForMonitor(ch_req)

\* The request names a session that another user owns.
ForeignSession ==
    /\ ch_req.session_id # << >>
    /\ ch_sid \in DOMAIN ss_sessions
    /\ ss_sessions[ch_sid].user_id # ChatUserId(ch_req.user)

\* C37: a chat or chat_async request that names the session of a different
\* user is refused, appends no turn to that session and enqueues no work
\* against it.
C37_SessionWriteIsolation ==
    (ch_pc = "done" /\ ForeignSession) =>
        /\ ch_resp.status # HTTP_OK
        /\ HistoryEntries = {}
        /\ EventEntries = {}
        /\ JobsOfRequest = {}

\* The route serves the request as it serves the owner's: while the store
\* answers, a foreign request that names an agent other than the monitor is
\* answered with its echo and its turn is appended to the owner's session, and
\* a foreign chat_async request is queued against the session whenever the
\* broker accepts the job.
C37_ForeignServedAsOwn ==
    (ch_pc = "done" /\ ForeignSession /\ "store" \notin ch_log) =>
        /\ (ch_req.route = "chat" /\ ~ForMonitor(ch_req))
           => /\ ch_resp.status = HTTP_OK
              /\ HistoryEntries # {}
              /\ EventEntries # {}
        /\ (ch_req.route = "chat_async" /\ tq_enabled /\ tq_call.broker_ok)
           => (ch_resp.status = HTTP_OK /\ JobsOfRequest # {})

-----------------------------------------------------------------------------
(***************************************************************************)
(* Get-or-create of a session by concurrent callers: api/routes/chat.py    *)
(* lines 39-50 and 89-100, agents/base_agent.py lines 84-91                *)
(***************************************************************************)

\* A caller starts: a chat route for the caller's user, or an attempt of
\* execute, which creates the session for "default-user".
GcStart(p, caller, sid, uid) ==
    /\ ss_p[p].pc = "idle"
    /\ caller \in {"chat", "execute"}
    /\ ss_p' = [ss_p EXCEPT ![p] =
           [IdleProc EXCEPT !.op = caller, !.sid = sid,
                            !.uid = IF caller = "execute" THEN DEFAULT_USER ELSE uid,
                            !.n = 1, !.pc = "lookup"]]
    /\ UNCHANGED <<ss_sessions, ss_history, ss_hist, ss_started>>

\* session = await session_service.get_session(session_id); if not session: ...
GcLookup(p, ok) ==
    /\ ss_p[p].op \in {"chat", "execute"} /\ ss_p[p].pc = "lookup"
    /\ LET session == get_session(ss_sessions, ss_p[p].sid, ok)
       IN  ss_p' = [ss_p EXCEPT ![p] =
               IF session = <<>>
               THEN [@ EXCEPT !.pc = "create"]
               ELSE [@ EXCEPT !.res = session, !.status = "found", !.pc = "done"]]
    /\ UNCHANGED <<ss_sessions, ss_history, ss_hist, ss_started>>

\* How the caller goes on when create_session raised: the route lets the
\* exception through (500); execute re-raises it to tenacity, which starts the
\* next attempt while there is one left.
after_raise(proc, cause) ==
    IF proc.op = "execute" /\ proc.n < MAX_ATTEMPTS
    THEN [proc EXCEPT !.n = @ + 1, !.pc = "lookup"]
    ELSE [proc EXCEPT !.status = cause, !.pc = "done"]

\* await session_service.create_session(...): the insert, re-raised when the
\* store fails or when the table already holds a row with this session_id.
GcCreate(p, ok) ==
    /\ ss_p[p].op \in {"chat", "execute"} /\ ss_p[p].pc = "create"
    /\ LET sid == ss_p[p].sid
       IN  IF ok /\ InsertAllowed(ss_sessions, sid)
           THEN /\ ss_sessions' = PutSession(ss_sessions, sid, NewSession(sid, ss_p[p].uid))
                /\ ss_p' = [ss_p EXCEPT ![p] = [@ EXCEPT !.status = "created", !.pc = "done"]]
           ELSE /\ ss_p' = [ss_p EXCEPT ![p] =
                       after_raise(@, IF ok THEN "conflict" ELSE "raised")]
                /\ UNCHANGED ss_sessions
    /\ UNCHANGED <<ss_history, ss_hist, ss_started>>

NextGetOrCreate ==
    \/ \E p \in Procs, caller \in {"chat", "execute"}, sid \in Sessions, uid \in Users :
           GcStart(p, caller, sid, uid) /\ SessFrame
    \/ \E p \in Procs, ok \in BOOLEAN : GcLookup(p, ok) /\ SessFrame
    \/ \E p \in Procs, ok \in BOOLEAN : GcCreate(p, ok) /\ SessFrame
    \/ \E p \in Procs : SSFinish(p) /\ SessFrame

SpecGetOrCreate == InitSession /\ [][NextGetOrCreate]_vars

\* C38: when several requests or executions name the same unknown session_id,
\* one session record is created and none of them fails because another one
\* created the session first.
C38_GetOrCreate ==
    \A p \in Procs : ss_p[p].status # "conflict"

\* What the store's key does guarantee: the record of an id is created once
\* and keeps its creator's user, and a caller loses only to a record that is
\* there.
C38_OneRecord ==
    /\ [][\A sid \in DOMAIN ss_sessions :
             sid \in DOMAIN ss_sessions' /\ ss_sessions'[sid] = ss_sessions[sid]]_vars
    /\ [](\A p \in Procs : ss_p[p].status = "conflict" => ss_p[p].sid \in DOMAIN ss_sessions)
    /\ [](\A p \in Procs : ss_p[p].status = "created"
            => ss_sessions[ss_p[p].sid].user_id = ss_p[p].uid)

-----------------------------------------------------------------------------
(***************************************************************************)
(* Failed checks in monitor_services: infrastructure_monitor/agent.py      *)
(* lines 59-102, tools.py lines 11-63                                      *)
(***************************************************************************)

\* The check of the service returned {"error": ...}.
CheckFailed(service_name) == mon_checks[service_name] = << >>

\* The metric records the pass has inserted so far.
Persisted == { i \in 1 .. Len(mon_log) : mon_log[i][1] = "insert" }

\* C39: a check that failed is never persisted as a metric record with status
\* healthy, and its failure does not keep the records of the other checks from
\* being built and persisted.
C39_FailedCheckNotHealthy ==
    /\ \A i \in Persisted : CheckFailed(mon_log[i][2]) => mon_log[i][3] # "healthy"
    /\ mon_pc # "idle" => Len(mon_metrics) = 3

\* What monitor_services does with a failed check: the three records are built
\* whatever failed, the record of a check that answered carries its value, a
\* failed docker check is recorded as 0 running with status warning, and a
\* failed disk or memory check is recorded as 0 percent with status healthy.
C39_FailedCheckAsZero ==
    mon_pc # "idle" =>
        /\ Len(mon_metrics) = 3
        /\ \A i \in 1 .. 3 :
             LET m == mon_metrics[i]
             IN  IF CheckFailed(m.service_name)
                 THEN /\ m.metric_value = 0
                      /\ m.status = IF m.service_name = "docker" THEN "warning" ELSE "healthy"
                 ELSE m.metric_value = mon_checks[m.service_name][1]
        /\ \A i \in Persisted : mon_log[i] = <<"insert", mon_metrics[i].service_name,
                                                mon_metrics[i].status>>
        /\ (mon_pc = "done" /\ mon_result = "success") => Persisted = {1, 2, 3}

=============================================================================
